---- MODULE Spec2Model ----
(***************************************************************************)
(* Pipeline orchestrator of transcriberv3 (app/core/job_queue.py) over the *)
(* SQLite job store (app/core/db_sqlite.py).                               *)
(*                                                                         *)
(* Threads: the UI thread calls the public methods of JobQueueManager,     *)
(* each of which is one action; every worker thread started by             *)
(* start_processing runs _worker_loop.  A worker is suspended only inside  *)
(* a call to an external collaborator (network, subprocess, disk), so one  *)
(* worker action is: the collaborator call in flight returns with some     *)
(* outcome, and the code runs on to the next collaborator call.  The pc of *)
(* a worker names the collaborator call it is inside.                      *)
(*                                                                         *)
(* A raised exception is caught in a step of its own.                      *)
(*                                                                         *)
(* Spec is the program as built, started on an empty store:                *)
(* Database.__init__ creates no _lock attribute, so "with self.db._lock"   *)
(* in _check_duplicate raises AttributeError.  SpecStored is the program   *)
(* as built, started on a store file that holds a COMPLETED job.           *)
(* SpecLocked runs the same orchestrator on that store with a store object *)
(* that does provide _lock, so that the code behind the duplicate check is *)
(* exercised.                                                              *)
(***************************************************************************)
EXTENDS Integers, Sequences, FiniteSets, TLC

\* ---- bounds ---------------------------------------------------------------
MaxJobs == 2
MaxWorkers == 2
MaxUrls == 2

\* ---- constants.py ---------------------------------------------------------
MAX_AUTO_RETRIES == 1
CHUNK_THRESHOLD_SEC == 7200
BASE_CHUNK_SEC == 3600
CHUNK_OVERLAP_SEC == 2
PROGRESS_VALIDATE == 5
PROGRESS_METADATA == 10
PROGRESS_CAPTIONS_TRY == 15
PROGRESS_CAPTIONS_PARSE == 20
PROGRESS_CAPTIONS_WRITE == 25
PROGRESS_AUDIO_SELECT == 30
PROGRESS_AUDIO_DOWNLOAD == 45
PROGRESS_AUDIO_NORMALIZE == 55
PROGRESS_AUDIO_CHUNK == 60
PROGRESS_TRANSCRIBE_START == 60
PROGRESS_TRANSCRIBE_END == 95
PROGRESS_MERGE == 96
PROGRESS_WRITE == 98
PROGRESS_CLEANUP == 100

QUEUED == "QUEUED"
RUNNING == "RUNNING"
COMPLETED == "COMPLETED"
FAILED == "FAILED"
SKIPPED == "SKIPPED"
JobStatus == {QUEUED, RUNNING, COMPLETED, FAILED, SKIPPED}

JobStage == {"VALIDATING_URL", "FETCHING_METADATA", "TRYING_CREATOR_CAPTIONS",
             "PARSING_CAPTIONS", "WRITING_TXT", "SELECTING_AUDIO_STREAM",
             "DOWNLOADING_AUDIO", "NORMALIZING_AUDIO", "CHUNKING_AUDIO",
             "TRANSCRIBING_DEEPGRAM", "MERGING_TRANSCRIPT", "CLEANUP"}

ChunkStatus == {"pending", "done", "failed"}

NonRetryableCodes == {"ERR_INVALID_URL", "ERR_VIDEO_UNAVAILABLE", "ERR_GEO_BLOCKED",
                      "ERR_RESTRICTED_CONTENT", "ERR_CAPTIONS_NOT_FOUND_CREATOR_EN",
                      "ERR_FFMPEG_NORMALIZE", "ERR_CHUNKING"}

RETRYABLE_ERRORS == {"ERR_DOWNLOAD_FAILED", "ERR_DEEPGRAM_TRANSCRIBE_FAILED",
                     "ERR_NETWORK_TRANSIENT", "ERR_DEEPGRAM_TIMEOUT"}

ErrorCode == NonRetryableCodes \cup RETRYABLE_ERRORS \cup {"CREATOR_CAPTIONS_USED_EN"}

\* Python's None, and "argument not given" for an integer keyword argument.
Null == "None"
NoProgress == -1

\* ---- error_codes.py -------------------------------------------------------
\* JobError(code, message, retryable=None): the flag defaults from the code.
JobError(code, message) ==
    [kind |-> "JobError", code |-> code, message |-> message,
     retryable |-> (code \in RETRYABLE_ERRORS)]

\* JobError(code, message, retryable=flag): the flag given at the raise site.
JobErrorFlag(code, message, flag) ==
    [kind |-> "JobError", code |-> code, message |-> message, retryable |-> flag]

\* Any other exception: it has a text, no code and no retryable flag.
Exception(message) ==
    [kind |-> "Exception", code |-> Null, message |-> message, retryable |-> FALSE]

\* No exception is being handled.
NoError == [kind |-> "none", code |-> Null, message |-> Null, retryable |-> FALSE]

\* ---- url_parse.py ---------------------------------------------------------
\* The URLs a user can paste: two spellings of video A, one of video B, and
\* one string that is no YouTube URL.
Urls == {"https://www.youtube.com/watch?v=AAAAAAAAAAA",
         "https://youtu.be/AAAAAAAAAAA",
         "https://www.youtube.com/watch?v=BBBBBBBBBBB",
         "https://example.com/clip"}

extract_video_id(url) ==
    CASE url = "https://www.youtube.com/watch?v=AAAAAAAAAAA" -> "AAAAAAAAAAA"
      [] url = "https://youtu.be/AAAAAAAAAAA" -> "AAAAAAAAAAA"
      [] url = "https://www.youtube.com/watch?v=BBBBBBBBBBB" -> "BBBBBBBBBBB"
      [] OTHER -> Null

VideoIds == {extract_video_id(u) : u \in Urls} \ {Null}

\* ---- state ----------------------------------------------------------------
VARIABLES
    jobs,             \* table jobs: job id -> row
    chunks,           \* table job_chunks: <<job id, idx>> -> row
    nextId,           \* the next fresh job id (uuid4 never repeats)
    transcripts,      \* video ids with a <video_id>.txt under the output root
    running,          \* JobQueueManager._running
    stopEvent,        \* JobQueueManager._stop_event
    stopAfterCurrent, \* JobQueueManager._stop_after_current
    workers,          \* the worker threads: where each is and its locals;
                      \* signalled records that stop_after_current was called
                      \* while the thread was processing a job
    adaptive,         \* one call of _transcribe_with_adaptive_retry: its
                      \* recursion stack, the files it wrote, its outcome
    call              \* one call of a function of the core modules: its
                      \* name, arguments and, once it has returned, result

vars == <<jobs, chunks, nextId, transcripts, running, stopEvent, stopAfterCurrent, workers,
         adaptive, call>>

JobIds == 1..MaxJobs
WorkerIds == 1..MaxWorkers

\* models_sqlite.Job as inserted by Database.create_job.
NewJob(url, video_id) ==
    [youtube_url |-> url, video_id |-> video_id, title |-> Null,
     status |-> QUEUED, stage |-> Null, progress_pct |-> 0, retry_count |-> 0,
     error_code |-> Null, error_message |-> Null, retryable |-> 0,
     used_creator_captions |-> 0, completed_at |-> Null]

\* No call is under observation.
NoCall == [pc |-> "idle"]

\* A thread that does not exist.
NoThread == [pc |-> "none", job |-> 0, url |-> Null, video_id |-> Null,
             duration |-> 0, idx |-> 0, text |-> Null, fetched |-> 0,
             error |-> NoError, signalled |-> FALSE]

\* A thread at the head of the while loop of _worker_loop.
AtLoop == [NoThread EXCEPT !.pc = "loop"]

Init ==
    /\ jobs = <<>>
    /\ chunks = <<>>
    /\ nextId = 1
    /\ transcripts = {}
    /\ running = FALSE
    /\ stopEvent = FALSE
    /\ stopAfterCurrent = FALSE
    /\ workers = [w \in WorkerIds |-> NoThread]
    /\ adaptive = NoCall
    /\ call = NoCall

\* A store file of an earlier session: the job for video A was completed from
\* creator captions and its transcript was written.
StoredJob ==
    [NewJob("https://www.youtube.com/watch?v=AAAAAAAAAAA", "AAAAAAAAAAA") EXCEPT
        !.title = "title", !.status = COMPLETED, !.stage = "CLEANUP", !.progress_pct = 100,
        !.used_creator_captions = 1, !.error_code = "CREATOR_CAPTIONS_USED_EN",
        !.completed_at = "set"]

InitStored ==
    /\ jobs = (1 :> StoredJob)
    /\ chunks = <<>>
    /\ nextId = 2
    /\ transcripts = {"AAAAAAAAAAA"}
    /\ running = FALSE
    /\ stopEvent = FALSE
    /\ stopAfterCurrent = FALSE
    /\ workers = [w \in WorkerIds |-> NoThread]
    /\ adaptive = NoCall
    /\ call = NoCall

\* ---- db_sqlite.py ---------------------------------------------------------
\* Database.update_job: UPDATE jobs SET <kwargs> WHERE id = ? (no row, no change).
update_job(js, id, kwargs) ==
    IF id \in DOMAIN js THEN [js EXCEPT ![id] = kwargs @@ @] ELSE js

\* Database.update_job_status: stage and progress only when given, completed_at
\* on a terminal status, then the extra fields.
update_job_status(js, id, status, stage, progress_pct, extra) ==
    LET f1 == [status |-> status]
        f2 == IF stage # Null THEN [stage |-> stage] @@ f1 ELSE f1
        f3 == IF progress_pct # NoProgress THEN [progress_pct |-> progress_pct] @@ f2 ELSE f2
        f4 == IF status \in {COMPLETED, FAILED, SKIPPED}
                THEN [completed_at |-> "set"] @@ f3 ELSE f3
    IN update_job(js, id, extra @@ f4)

\* Database.get_queued_jobs: the QUEUED rows, oldest first (ids grow with creation).
get_queued_jobs(js) == {i \in DOMAIN js : js[i].status = QUEUED}

Oldest(S) == CHOOSE i \in S : \A k \in S : i <= k

\* Database.delete_chunks / the chunk part of delete_job.
delete_chunks(cs, id) == [k \in {c \in DOMAIN cs : c[1] # id} |-> cs[k]]

\* Database.delete_job.
delete_job(js, id) == [k \in DOMAIN js \ {id} |-> js[k]]

\* Database.clear_queued_jobs: DELETE FROM jobs WHERE status = QUEUED.
clear_queued_jobs(js) == [k \in {i \in DOMAIN js : js[i].status # QUEUED} |-> js[k]]

\* ---- JobQueueManager: the public methods ----------------------------------
RECURSIVE add_urls_loop(_, _, _)
add_urls_loop(js, next, urls) ==
    IF urls = <<>> THEN [jobs |-> js, next |-> next]
    ELSE LET url == Head(urls)
             video_id == extract_video_id(url)
         IN IF video_id = Null
              THEN add_urls_loop(js, next, Tail(urls))
              ELSE add_urls_loop((next :> NewJob(url, video_id)) @@ js, next + 1, Tail(urls))

UrlLists == UNION {[1..n -> Urls] : n \in 1..MaxUrls}

add_urls ==
    \E urls \in UrlLists :
        LET r == add_urls_loop(jobs, nextId, urls)
        IN /\ r.next <= MaxJobs + 1
           /\ jobs' = r.jobs
           /\ nextId' = r.next
           /\ UNCHANGED <<chunks, transcripts, running, stopEvent, stopAfterCurrent, workers, adaptive, call>>

start_processing ==
    /\ ~running
    /\ \E w \in WorkerIds :
        /\ workers[w].pc = "none"
        /\ \A v \in WorkerIds : v < w => workers[v].pc # "none"
        /\ workers' = [workers EXCEPT ![w] = AtLoop]
    /\ stopEvent' = FALSE
    /\ stopAfterCurrent' = FALSE
    /\ running' = TRUE
    /\ UNCHANGED <<jobs, chunks, nextId, transcripts, adaptive, call>>

stop_processing ==
    /\ stopEvent' = TRUE
    /\ running' = FALSE
    /\ UNCHANGED <<jobs, chunks, nextId, transcripts, stopAfterCurrent, workers, adaptive, call>>

stop_after_current ==
    /\ stopAfterCurrent' = TRUE
    /\ workers' = [w \in WorkerIds |->
                     IF workers[w].pc \in {"none", "loop"} THEN workers[w]
                     ELSE [workers[w] EXCEPT !.signalled = TRUE]]
    /\ UNCHANGED <<jobs, chunks, nextId, transcripts, running, stopEvent, adaptive, call>>

\* JobQueueManager.retry_job: the two tables after the call for job id.
retry_job_outcome(js, cs, id) ==
    IF id \in DOMAIN js /\ js[id].status = FAILED
      THEN [jobs |-> update_job(js, id,
                        [status |-> QUEUED, stage |-> Null, progress_pct |-> 0,
                         error_code |-> Null, error_message |-> Null, retryable |-> 0]),
            chunks |-> delete_chunks(cs, id)]
      ELSE [jobs |-> js, chunks |-> cs]

retry_job ==
    \E id \in 1..MaxJobs :
        /\ id < nextId
        /\ jobs' = retry_job_outcome(jobs, chunks, id).jobs
        /\ chunks' = retry_job_outcome(jobs, chunks, id).chunks
        /\ UNCHANGED <<nextId, transcripts, running, stopEvent, stopAfterCurrent, workers, adaptive, call>>

remove_job ==
    \E id \in DOMAIN jobs :
        /\ jobs' = delete_job(jobs, id)
        /\ chunks' = delete_chunks(chunks, id)
        /\ UNCHANGED <<nextId, transcripts, running, stopEvent, stopAfterCurrent, workers, adaptive, call>>

\* PRAGMA foreign_keys=ON: the DELETE fails as a whole (IntegrityError in the
\* caller) while a chunk row references one of the rows to delete.
clear_queue_outcome(js, cs) ==
    IF \E c \in DOMAIN cs : c[1] \in get_queued_jobs(js)
      THEN js
      ELSE clear_queued_jobs(js)

clear_queue ==
    /\ jobs' = clear_queue_outcome(jobs, chunks)
    /\ UNCHANGED <<chunks, nextId, transcripts, running, stopEvent, stopAfterCurrent, workers,
                   adaptive, call>>


\* ---- chunking_timebased.py ------------------------------------------------
needs_chunking(duration_sec) == duration_sec > CHUNK_THRESHOLD_SEC

Min(a, b) == IF a < b THEN a ELSE b

\* The while loop of create_chunk_manifest (manifest_loop_late: the next
\* chunk started an overlap after the end of the last one instead of before).
RECURSIVE manifest_loop_late(_, _, _, _, _)
manifest_loop_late(idx, start, duration_sec, chunk_duration_sec, overlap_sec) ==
    IF start < duration_sec
      THEN LET end == Min(start + chunk_duration_sec, duration_sec)
           IN <<[idx |-> idx, start_sec |-> start, end_sec |-> end]>>
              \o manifest_loop_late(idx + 1,
                               IF end < duration_sec THEN end + overlap_sec ELSE duration_sec,
                               duration_sec, chunk_duration_sec, overlap_sec)
      ELSE <<>>

RECURSIVE manifest_loop(_, _, _, _, _)
manifest_loop(idx, start, duration_sec, chunk_duration_sec, overlap_sec) ==
    IF start < duration_sec
      THEN LET end == Min(start + chunk_duration_sec, duration_sec)
           IN <<[idx |-> idx, start_sec |-> start, end_sec |-> end]>>
              \o manifest_loop(idx + 1,
                               IF end < duration_sec THEN end - overlap_sec ELSE duration_sec,
                               duration_sec, chunk_duration_sec, overlap_sec)
      ELSE <<>>

create_chunk_manifest(duration_sec, chunk_duration_sec, overlap_sec) ==
    manifest_loop(0, 0, duration_sec, chunk_duration_sec, overlap_sec)

\* create_job_chunks + Database.create_chunks: one pending row per manifest entry.
create_chunks(cs, id, manifest) ==
    [k \in {<<id, manifest[n].idx>> : n \in 1..Len(manifest)} |->
        LET e == manifest[k[2] + 1]
        IN [start_sec |-> e.start_sec, end_sec |-> e.end_sec, status |-> "pending",
            attempts |-> 0, error_code |-> Null, error_message |-> Null]] @@ cs

\* Database.update_chunk: UPDATE job_chunks SET <kwargs> WHERE job_id = ? AND idx = ?.
update_chunk(cs, id, idx, kwargs) ==
    IF <<id, idx>> \in DOMAIN cs THEN [cs EXCEPT ![<<id, idx>>] = kwargs @@ @] ELSE cs

\* ---- collaborators: what a call can return --------------------------------
\* Durations the probe (ffprobe) and the metadata can report; 0 is "unknown".
Durations == {0, 3600, 10800}

MetadataErrors ==
    {JobError("ERR_NETWORK_TRANSIENT", "yt-dlp failed"),
     JobError("ERR_VIDEO_UNAVAILABLE", "Video unavailable"),
     JobError("ERR_GEO_BLOCKED", "Geo-blocked"),
     JobError("ERR_RESTRICTED_CONTENT", "Restricted content (login/age required)")}

\* The error the adaptive controller raises for a timeout at the floor.
FloorTimeout == JobError("ERR_DEEPGRAM_TIMEOUT", "Timeout on minimum chunk size")

TranscribeErrors ==
    {FloorTimeout,
     JobErrorFlag("ERR_DEEPGRAM_TIMEOUT", "Deepgram request timed out", TRUE),
     JobErrorFlag("ERR_NETWORK_TRANSIENT", "Network error connecting to Deepgram", TRUE),
     JobError("ERR_DEEPGRAM_TRANSCRIBE_FAILED", "Deepgram returned 500")}

\* ---- JobQueueManager: the worker ------------------------------------------
\* _update_progress
update_progress(js, id, stage, progress) ==
    update_job_status(js, id, RUNNING, stage, progress, <<>>)

Goto(w, pc) == workers' = [workers EXCEPT ![w].pc = pc]

\* An exception leaves the try block of _process_job.
Raise(w, e) == workers' = [workers EXCEPT ![w].pc = "except", ![w].error = e]

\* _process_job returns to _worker_loop.
Return(w) == workers' = [workers EXCEPT ![w] = [AtLoop EXCEPT !.signalled = workers[w].signalled]]

\* _worker_loop: one pass of the while loop up to the call of validate_youtube_url
\* in _process_job, or the exit of the thread through the finally clause.
worker_loop(w) ==
    /\ workers[w].pc = "loop"
    /\ IF stopEvent \/ stopAfterCurrent \/ get_queued_jobs(jobs) = {}
         THEN /\ running' = FALSE
              /\ workers' = [workers EXCEPT ![w] = NoThread]
              /\ jobs' = jobs
         ELSE LET id == Oldest(get_queued_jobs(jobs))
              IN /\ jobs' = update_job_status(jobs, id, RUNNING, "VALIDATING_URL",
                                              PROGRESS_VALIDATE, <<>>)
                 /\ workers' = [workers EXCEPT ![w] =
                                  [workers[w] EXCEPT !.pc = "validate_youtube_url",
                                                     !.job = id,
                                                     !.url = jobs[id].youtube_url]]
                 /\ running' = running
    /\ UNCHANGED <<chunks, nextId, transcripts, stopEvent, stopAfterCurrent, adaptive, call>>

\* _process_job, stage 1, with the Database of db_sqlite.py: validate_youtube_url
\* returns, the video id is stored, and _check_duplicate evaluates self.db._lock,
\* an attribute Database never creates.
process_job_validate(w) ==
    LET id == workers[w].job
        video_id == extract_video_id(workers[w].url)
    IN /\ workers[w].pc = "validate_youtube_url"
       /\ IF video_id = Null
            THEN /\ Raise(w, JobError("ERR_INVALID_URL", "Not a valid YouTube URL"))
                 /\ jobs' = jobs
            ELSE /\ jobs' = update_job(jobs, id, [video_id |-> video_id])
                 /\ workers' = [workers EXCEPT ![w].pc = "except", ![w].video_id = video_id,
                        ![w].error = Exception("'Database' object has no attribute '_lock'")]
       /\ UNCHANGED <<chunks, nextId, transcripts, running, stopEvent, stopAfterCurrent, adaptive, call>>

\* The same stage against a store that has the _lock attribute: the part of
\* _check_duplicate inside "with self.db._lock".
process_job_validate_locked(w) ==
    LET id == workers[w].job
        video_id == extract_video_id(workers[w].url)
        js == update_job(jobs, id, [video_id |-> video_id])
        already_done == \E j \in DOMAIN js :
                            /\ js[j].video_id = video_id
                            /\ js[j].status = COMPLETED
                            /\ j # id
    IN /\ workers[w].pc = "validate_youtube_url"
       /\ IF video_id = Null
            THEN /\ Raise(w, JobError("ERR_INVALID_URL", "Not a valid YouTube URL"))
                 /\ jobs' = jobs
            ELSE IF already_done
              THEN /\ jobs' = update_job(js, id, [status |-> SKIPPED, stage |-> "DUPLICATE_IN_DB",
                                                  progress_pct |-> 100, completed_at |-> "set"])
                   /\ Return(w)
              ELSE /\ jobs' = js
                   /\ workers' = [workers EXCEPT ![w].pc = "transcript_exists",
                                                 ![w].video_id = video_id]
       /\ UNCHANGED <<chunks, nextId, transcripts, running, stopEvent, stopAfterCurrent, adaptive, call>>

\* _check_duplicate, the filesystem check, then stage 2 up to fetch_metadata.
check_duplicate_on_disk(w) ==
    LET id == workers[w].job
    IN /\ workers[w].pc = "transcript_exists"
       /\ IF workers[w].video_id \in transcripts
            THEN /\ jobs' = update_job_status(jobs, id, SKIPPED, "DUPLICATE_ON_DISK", 100, <<>>)
                 /\ Return(w)
            ELSE /\ jobs' = update_progress(jobs, id, "FETCHING_METADATA", PROGRESS_METADATA)
                 /\ workers' = [workers EXCEPT ![w].pc = "fetch_metadata",
                                               ![w].fetched = @ + 1]
       /\ UNCHANGED <<chunks, nextId, transcripts, running, stopEvent, stopAfterCurrent, adaptive, call>>

\* fetch_metadata returns or raises; the title is stored, ytinfo.json is written
\* (an OSError there is no JobError), stage 3 starts.
process_job_metadata(w) ==
    LET id == workers[w].job
    IN /\ workers[w].pc = "fetch_metadata"
       /\ \/ \E e \in MetadataErrors : Raise(w, e) /\ jobs' = jobs
          \/ /\ jobs' = update_job(jobs, id, [title |-> "title"])
             /\ Raise(w, Exception("OSError: ytinfo.json"))
          \/ /\ jobs' = update_progress(update_job(jobs, id, [title |-> "title"]), id,
                                        "TRYING_CREATOR_CAPTIONS", PROGRESS_CAPTIONS_TRY)
             /\ Goto(w, "fetch_creator_captions")
       /\ UNCHANGED <<chunks, nextId, transcripts, running, stopEvent, stopAfterCurrent, adaptive, call>>

\* fetch_creator_captions returns a VTT path (captions path, up to the parser)
\* or None (Deepgram fallback, up to the keychain lookup).
process_job_captions(w) ==
    LET id == workers[w].job
    IN /\ workers[w].pc = "fetch_creator_captions"
       /\ \/ /\ jobs' = update_progress(jobs, id, "PARSING_CAPTIONS", PROGRESS_CAPTIONS_PARSE)
             /\ Goto(w, "parse_vtt_to_text")
          \/ /\ jobs' = jobs
             /\ Goto(w, "keychain_get_api_key")
       /\ UNCHANGED <<chunks, nextId, transcripts, running, stopEvent, stopAfterCurrent, adaptive, call>>

\* _process_captions_path: the parser returns text, or returns nothing / throws,
\* which switches to the fallback when the job row still exists.
\* (captions_path_parse_refetch: the switch made by fetching the metadata anew.)
captions_path_parse_refetch(w) ==
    LET id == workers[w].job
    IN /\ workers[w].pc = "parse_vtt_to_text"
       /\ \/ /\ jobs' = update_progress(jobs, id, "WRITING_TXT", PROGRESS_CAPTIONS_WRITE)
             /\ workers' = [workers EXCEPT ![w].pc = "write_transcript_captions",
                                           ![w].text = "text"]
          \/ /\ jobs' = jobs
             /\ IF id \in DOMAIN jobs
                  THEN workers' = [workers EXCEPT ![w].pc = "fetch_metadata",
                                                  ![w].fetched = @ + 1,
                                                  ![w].text = ""]
                  ELSE Return(w)
       /\ UNCHANGED <<chunks, nextId, transcripts, running, stopEvent, stopAfterCurrent, adaptive, call>>

captions_path_parse(w) ==
    LET id == workers[w].job
    IN /\ workers[w].pc = "parse_vtt_to_text"
       /\ \/ /\ jobs' = update_progress(jobs, id, "WRITING_TXT", PROGRESS_CAPTIONS_WRITE)
             /\ workers' = [workers EXCEPT ![w].pc = "write_transcript_captions",
                                           ![w].text = "text"]
          \/ /\ jobs' = jobs
             /\ IF id \in DOMAIN jobs
                  THEN workers' = [workers EXCEPT ![w].pc = "keychain_get_api_key",
                                                  ![w].text = ""]
                  ELSE Return(w)
       /\ UNCHANGED <<chunks, nextId, transcripts, running, stopEvent, stopAfterCurrent, adaptive, call>>

\* _process_captions_path: write_transcript returns or throws (OSError).
captions_path_write(w) ==
    LET id == workers[w].job
    IN /\ workers[w].pc = "write_transcript_captions"
       /\ \/ /\ transcripts' = transcripts \cup {workers[w].video_id}
             /\ jobs' = update_progress(jobs, id, "CLEANUP", PROGRESS_CLEANUP)
             /\ Goto(w, "cleanup_captions")
          \/ /\ Raise(w, Exception("OSError: write_transcript"))
             /\ UNCHANGED <<jobs, transcripts>>
       /\ UNCHANGED <<chunks, nextId, running, stopEvent, stopAfterCurrent, adaptive, call>>

\* _process_captions_path: cleanup_job_artifacts returns, the job is COMPLETED.
captions_path_complete(w) ==
    LET id == workers[w].job
    IN /\ workers[w].pc = "cleanup_captions"
       /\ jobs' = update_job_status(jobs, id, COMPLETED, "CLEANUP", 100,
                                    [used_creator_captions |-> 1,
                                     error_code |-> "CREATOR_CAPTIONS_USED_EN"])
       /\ Return(w)
       /\ UNCHANGED <<chunks, nextId, transcripts, running, stopEvent, stopAfterCurrent, adaptive, call>>

\* _process_deepgram_fallback: the API key lookup (keychain, then the
\* on_api_key_needed callback) yields a key or not.
fallback_api_key(w) ==
    LET id == workers[w].job
    IN /\ workers[w].pc = "keychain_get_api_key"
       /\ \/ /\ jobs' = update_progress(jobs, id, "SELECTING_AUDIO_STREAM", PROGRESS_AUDIO_SELECT)
             /\ Goto(w, "select_audio_stream")
          \/ /\ jobs' = jobs
             /\ Raise(w, JobError("ERR_DEEPGRAM_TRANSCRIBE_FAILED",
                                  "Deepgram API key not available"))
       /\ UNCHANGED <<chunks, nextId, transcripts, running, stopEvent, stopAfterCurrent, adaptive, call>>

\* select_audio_stream returns (it always selects something).
\* (fallback_select_normalizing: the stage after the next recorded.)
fallback_select_normalizing(w) ==
    LET id == workers[w].job
    IN /\ workers[w].pc = "select_audio_stream"
       /\ jobs' = update_progress(jobs, id, "NORMALIZING_AUDIO", PROGRESS_AUDIO_DOWNLOAD)
       /\ Goto(w, "download_audio")
       /\ UNCHANGED <<chunks, nextId, transcripts, running, stopEvent, stopAfterCurrent, adaptive, call>>

fallback_select(w) ==
    LET id == workers[w].job
    IN /\ workers[w].pc = "select_audio_stream"
       /\ jobs' = update_progress(jobs, id, "DOWNLOADING_AUDIO", PROGRESS_AUDIO_DOWNLOAD)
       /\ Goto(w, "download_audio")
       /\ UNCHANGED <<chunks, nextId, transcripts, running, stopEvent, stopAfterCurrent, adaptive, call>>

\* download_audio returns or raises.
fallback_download(w) ==
    LET id == workers[w].job
    IN /\ workers[w].pc = "download_audio"
       /\ \/ /\ jobs' = update_progress(jobs, id, "NORMALIZING_AUDIO", PROGRESS_AUDIO_NORMALIZE)
             /\ Goto(w, "normalize_audio")
          \/ /\ jobs' = jobs
             /\ Raise(w, JobError("ERR_DOWNLOAD_FAILED", "yt-dlp download failed"))
       /\ UNCHANGED <<chunks, nextId, transcripts, running, stopEvent, stopAfterCurrent, adaptive, call>>

\* normalize_audio returns or raises; the duration is probed (the metadata's
\* duration when the probe gives none); the recording is chunked or not.
fallback_normalize(w) ==
    LET id == workers[w].job
    IN /\ workers[w].pc = "normalize_audio"
       /\ \/ /\ jobs' = jobs
             /\ Raise(w, JobError("ERR_FFMPEG_NORMALIZE", "ffmpeg failed"))
          \/ \E probed \in Durations, reported \in Durations :
               LET duration == IF probed <= 0 THEN reported ELSE probed
               IN IF needs_chunking(duration)
                    THEN /\ jobs' = update_progress(jobs, id, "CHUNKING_AUDIO",
                                                    PROGRESS_AUDIO_CHUNK)
                         /\ workers' = [workers EXCEPT ![w].pc = "split_audio_into_chunks",
                                                       ![w].duration = duration]
                    ELSE /\ jobs' = update_progress(jobs, id, "TRANSCRIBING_DEEPGRAM",
                                                    PROGRESS_TRANSCRIBE_START)
                         /\ workers' = [workers EXCEPT ![w].pc = "transcribe_single",
                                                       ![w].duration = duration]
       /\ UNCHANGED <<chunks, nextId, transcripts, running, stopEvent, stopAfterCurrent, adaptive, call>>

\* The head of the for loop of _transcribe_chunks for chunk i: the stop check,
\* then the progress update, up to the transcription call for that chunk.
\* (chunk_progress_remaining: the slip of counting the share still to do.)
chunk_progress_remaining(i, total) ==
    PROGRESS_TRANSCRIBE_END
      - ((i * (PROGRESS_TRANSCRIBE_END - PROGRESS_TRANSCRIBE_START)) \div total)

chunk_progress(i, total) ==
    PROGRESS_TRANSCRIBE_START
      + ((i * (PROGRESS_TRANSCRIBE_END - PROGRESS_TRANSCRIBE_START)) \div total)

StoppedByUser == JobError("ERR_NETWORK_TRANSIENT", "Processing stopped by user")

next_chunk(w, js, i, total) ==
    IF stopEvent
      THEN /\ jobs' = js
           /\ Raise(w, StoppedByUser)
      ELSE /\ jobs' = update_progress(js, workers[w].job, "TRANSCRIBING_DEEPGRAM",
                                      chunk_progress(i, total))
           /\ workers' = [workers EXCEPT ![w].pc = "transcribe_chunk", ![w].idx = i]

\* split_audio_into_chunks returns or raises; the chunk rows are inserted (an
\* IntegrityError when a row <<job, idx>> exists or the job row is gone);
\* _transcribe_chunks starts.
fallback_split(w) ==
    LET id == workers[w].job
        manifest == create_chunk_manifest(workers[w].duration, BASE_CHUNK_SEC,
                                          CHUNK_OVERLAP_SEC)
    IN /\ workers[w].pc = "split_audio_into_chunks"
       /\ \/ /\ Raise(w, JobError("ERR_CHUNKING", "ffmpeg chunk failed"))
             /\ UNCHANGED <<jobs, chunks>>
          \/ IF \/ id \notin DOMAIN jobs
                \/ \E n \in 1..Len(manifest) : <<id, manifest[n].idx>> \in DOMAIN chunks
               THEN /\ Raise(w, Exception("sqlite3.IntegrityError"))
                    /\ UNCHANGED <<jobs, chunks>>
               ELSE /\ chunks' = create_chunks(chunks, id, manifest)
                    /\ next_chunk(w, jobs, 0, Len(manifest))
       /\ UNCHANGED <<nextId, transcripts, running, stopEvent, stopAfterCurrent, adaptive, call>>

\* _transcribe_chunks: the transcription of chunk idx returns (row done, on to
\* the next chunk or to the merge) or raises a JobError (row failed, the error
\* goes on) or, from the ffmpeg run of a split, another exception (row left).
\* (transcribe_chunks_on: the loop going on to the next chunk after a failure.)
transcribe_chunks_on(w) ==
    LET id == workers[w].job
        i == workers[w].idx
        total == Len(create_chunk_manifest(workers[w].duration, BASE_CHUNK_SEC,
                                           CHUNK_OVERLAP_SEC))
    IN /\ workers[w].pc = "transcribe_chunk"
       /\ \E status \in {"done", "failed"} :
             /\ chunks' = update_chunk(chunks, id, i, [status |-> status])
             /\ IF i + 1 < total
                  THEN next_chunk(w, jobs, i + 1, total)
                  ELSE /\ jobs' = update_progress(jobs, id, "MERGING_TRANSCRIPT", PROGRESS_MERGE)
                       /\ Goto(w, "merge")
       /\ UNCHANGED <<nextId, transcripts, running, stopEvent, stopAfterCurrent, adaptive, call>>

transcribe_chunks(w) ==
    LET id == workers[w].job
        i == workers[w].idx
        total == Len(create_chunk_manifest(workers[w].duration, BASE_CHUNK_SEC,
                                           CHUNK_OVERLAP_SEC))
    IN /\ workers[w].pc = "transcribe_chunk"
       /\ \/ \E e \in TranscribeErrors :
               /\ chunks' = update_chunk(chunks, id, i,
                                [status |-> "failed", error_code |-> e.code,
                                 error_message |-> e.message])
               /\ jobs' = jobs
               /\ Raise(w, e)
          \/ /\ Raise(w, Exception("TimeoutExpired: ffmpeg"))
             /\ UNCHANGED <<jobs, chunks>>
          \/ /\ chunks' = update_chunk(chunks, id, i, [status |-> "done"])
             /\ IF i + 1 < total
                  THEN next_chunk(w, jobs, i + 1, total)
                  ELSE /\ jobs' = update_progress(jobs, id, "MERGING_TRANSCRIPT", PROGRESS_MERGE)
                       /\ Goto(w, "merge")
       /\ UNCHANGED <<nextId, transcripts, running, stopEvent, stopAfterCurrent, adaptive, call>>

\* _process_deepgram_fallback, recording not chunked: the one transcription
\* returns or raises.
fallback_transcribe_single(w) ==
    LET id == workers[w].job
    IN /\ workers[w].pc = "transcribe_single"
       /\ \/ \E e \in TranscribeErrors : jobs' = jobs /\ Raise(w, e)
          \/ /\ jobs' = update_progress(jobs, id, "MERGING_TRANSCRIPT", PROGRESS_MERGE)
             /\ Goto(w, "merge")
       /\ UNCHANGED <<chunks, nextId, transcripts, running, stopEvent, stopAfterCurrent, adaptive, call>>

\* merged.txt is written.
fallback_merge(w) ==
    LET id == workers[w].job
    IN /\ workers[w].pc = "merge"
       /\ jobs' = update_progress(jobs, id, "WRITING_TXT", PROGRESS_WRITE)
       /\ Goto(w, "write_transcript")
       /\ UNCHANGED <<chunks, nextId, transcripts, running, stopEvent, stopAfterCurrent, adaptive, call>>

\* write_transcript returns or throws (OSError).
fallback_write(w) ==
    LET id == workers[w].job
    IN /\ workers[w].pc = "write_transcript"
       /\ \/ /\ transcripts' = transcripts \cup {workers[w].video_id}
             /\ jobs' = update_progress(jobs, id, "CLEANUP", PROGRESS_CLEANUP)
             /\ Goto(w, "cleanup")
          \/ /\ Raise(w, Exception("OSError: write_transcript"))
             /\ UNCHANGED <<jobs, transcripts>>
       /\ UNCHANGED <<chunks, nextId, running, stopEvent, stopAfterCurrent, adaptive, call>>

\* cleanup_job_artifacts returns, the job is COMPLETED.
fallback_complete(w) ==
    LET id == workers[w].job
    IN /\ workers[w].pc = "cleanup"
       /\ jobs' = update_job_status(jobs, id, COMPLETED, "CLEANUP", 100, <<>>)
       /\ Return(w)
       /\ UNCHANGED <<chunks, nextId, transcripts, running, stopEvent, stopAfterCurrent, adaptive, call>>

\* Variants of _handle_job_error with a slip: "<=" for "<" in the retry test;
\* the retryable flag of the error ignored; the stage kept on a requeue.
job_error_outcome_le(js, id, error) ==
    IF id \notin DOMAIN js THEN js
    ELSE IF error.retryable /\ js[id].retry_count <= MAX_AUTO_RETRIES
      THEN update_job(js, id, [retry_count |-> js[id].retry_count + 1, status |-> QUEUED,
                               stage |-> Null, progress_pct |-> 0,
                               error_code |-> Null, error_message |-> Null])
      ELSE update_job_status(js, id, FAILED, Null, NoProgress,
                             [error_code |-> error.code, error_message |-> error.message,
                              retryable |-> IF error.retryable THEN 1 ELSE 0])

job_error_outcome_any(js, id, error) ==
    IF id \notin DOMAIN js THEN js
    ELSE IF js[id].retry_count < MAX_AUTO_RETRIES
      THEN update_job(js, id, [retry_count |-> js[id].retry_count + 1, status |-> QUEUED,
                               stage |-> Null, progress_pct |-> 0,
                               error_code |-> Null, error_message |-> Null])
      ELSE update_job_status(js, id, FAILED, Null, NoProgress,
                             [error_code |-> error.code, error_message |-> error.message,
                              retryable |-> IF error.retryable THEN 1 ELSE 0])

job_error_outcome_stage(js, id, error) ==
    IF id \notin DOMAIN js THEN js
    ELSE IF error.retryable /\ js[id].retry_count < MAX_AUTO_RETRIES
      THEN update_job(js, id, [retry_count |-> js[id].retry_count + 1, status |-> QUEUED,
                               progress_pct |-> 0,
                               error_code |-> Null, error_message |-> Null])
      ELSE update_job_status(js, id, FAILED, Null, NoProgress,
                             [error_code |-> error.code, error_message |-> error.message,
                              retryable |-> IF error.retryable THEN 1 ELSE 0])

\* _handle_job_error: the row after the handler has run for error.
job_error_outcome(js, id, error) ==
    IF id \notin DOMAIN js THEN js
    ELSE IF error.retryable /\ js[id].retry_count < MAX_AUTO_RETRIES
      THEN update_job(js, id, [retry_count |-> js[id].retry_count + 1, status |-> QUEUED,
                               stage |-> Null, progress_pct |-> 0,
                               error_code |-> Null, error_message |-> Null])
      ELSE update_job_status(js, id, FAILED, Null, NoProgress,
                             [error_code |-> error.code, error_message |-> error.message,
                              retryable |-> IF error.retryable THEN 1 ELSE 0])

\* _process_job, "except JobError as e".
handle_job_error(w) ==
    /\ workers[w].pc = "except"
    /\ workers[w].error.kind = "JobError"
    /\ jobs' = job_error_outcome(jobs, workers[w].job, workers[w].error)
    /\ Return(w)
    /\ UNCHANGED <<chunks, nextId, transcripts, running, stopEvent, stopAfterCurrent, adaptive, call>>

\* (unexpected_outcome_logged: a handler that logs the exception and no more.)
unexpected_outcome_logged(js, id, error) ==
    js

\* _process_job, "except Exception as e": the row after the handler has run.
unexpected_outcome(js, id, error) ==
    update_job_status(js, id, FAILED, Null, NoProgress,
                      [error_code |-> "ERR_UNEXPECTED", error_message |-> error.message,
                       retryable |-> 1])

handle_unexpected(w) ==
    /\ workers[w].pc = "except"
    /\ workers[w].error.kind = "Exception"
    /\ jobs' = unexpected_outcome(jobs, workers[w].job, workers[w].error)
    /\ Return(w)
    /\ UNCHANGED <<chunks, nextId, transcripts, running, stopEvent, stopAfterCurrent, adaptive, call>>

\* ---- _transcribe_with_adaptive_retry ---------------------------------------
\* Times are Python floats in seconds; the model counts in sixteenths of a
\* second, which keeps every halving of the segments below exact.
TicksPerSec == 16
MIN_CHUNK_SEC == 300

Sec(n) == n * TicksPerSec

\* The segments the controller is called for, <<start_sec, end_sec>>: a
\* recording or first chunk of 20 minutes, a later chunk of that length, and
\* recordings at and just above the floor.
Segments == {<<Sec(0), Sec(1200)>>, <<Sec(3598), Sec(4798)>>,
             <<Sec(0), Sec(300)>>, <<Sec(0), Sec(302)>>}

\* format(start_sec, ".0f"): the nearest whole second, a tie to the even one.
RoundSec(t) ==
    LET q == t \div TicksPerSec
        r == t % TicksPerSec
    IN IF 2 * r < TicksPerSec THEN q
       ELSE IF 2 * r > TicksPerSec THEN q + 1
       ELSE IF q % 2 = 0 THEN q ELSE q + 1

\* chunking_timebased.split_chunk_in_half
split_chunk_in_half(start_sec, end_sec) ==
    LET mid == (start_sec + end_sec) \div 2
    IN <<[start_sec |-> start_sec, end_sec |-> mid],
         [start_sec |-> mid - Sec(CHUNK_OVERLAP_SEC), end_sec |-> end_sec]>>

\* The (s, e) pairs of the for loop: the halves the controller cuts
\* (adaptive_parts_whole: the second pair written as the whole segment).
adaptive_parts_whole(start_sec, end_sec) ==
    LET half_duration == (end_sec - start_sec) \div 2
    IN <<[start_sec |-> start_sec, end_sec |-> start_sec + half_duration],
         [start_sec |-> start_sec, end_sec |-> end_sec]>>

adaptive_parts(start_sec, end_sec) ==
    LET half_duration == (end_sec - start_sec) \div 2
    IN <<[start_sec |-> start_sec, end_sec |-> start_sec + half_duration],
         [start_sec |-> start_sec + half_duration - Sec(2), end_sec |-> end_sec]>>

\* f"adaptive_{start_sec:.0f}_{part_idx}" (.mp3 under chunks/adaptive, .json
\* beside the output of the caller); ChunkFile is the caller's file.
adaptive_name(start_sec, part_idx) == <<"adaptive", RoundSec(start_sec), part_idx>>
ChunkFile == <<"chunk", 0, 0>>

\* The floor test of the controller (at_floor_strict: "<" written for "<=").
at_floor_strict(duration) == duration < Sec(MIN_CHUNK_SEC)

at_floor(duration) == duration <= Sec(MIN_CHUNK_SEC)

\* How one call of transcribe_audio ends: with a response, with the JobError
\* for a timeout or for another failure of the request (all of them
\* retryable), or with an OSError from reading the audio file or writing the
\* response, which is no JobError.
ServiceResponses == {"ok", "timeout", "error", "oserror"}

ServiceError(response) ==
    IF response = "timeout"
      THEN JobErrorFlag("ERR_DEEPGRAM_TIMEOUT", "Deepgram request timed out", TRUE)
    ELSE IF response = "error"
      THEN JobErrorFlag("ERR_NETWORK_TRANSIENT", "Network error connecting to Deepgram", TRUE)
      ELSE Exception("OSError")

\* A transcript is the list of the stretches of the recording it renders.
\* transcribe_deepgram.extract_transcript_text: the text inside a response.
extract_transcript_text(response) == response.transcript

RECURSIVE merge_transcripts(_)
merge_transcripts(texts) ==
    IF texts = <<>> THEN <<>> ELSE Head(texts) \o merge_transcripts(Tail(texts))

\* ffmpeg -y -i in -ss ss -t t -codec:a copy out: the stretch of "in" from ss
\* for t, cut short at its end; ffmpeg refuses to write over its own input.
ffmpeg_cut(files, in, out, ss, t) ==
    IF in = out THEN files
    ELSE LET a == files[in][1] + ss
             b == Min(files[in][2], a + t)
         IN (out :> <<Min(a, files[in][2]), b>>) @@ files

\* One activation of the controller.
Frame(audio, out, start_sec, end_sec) ==
    [audio |-> audio, out |-> out, start_sec |-> start_sec, end_sec |-> end_sec,
     part_idx |-> 0, texts |-> <<>>]

\* The state a fresh call for a segment starts from: the request for the whole
\* audio file is in flight.
Call(seg) ==
    [pc |-> "transcribe_audio",
     stack |-> <<Frame(ChunkFile, ChunkFile, seg[1], seg[2])>>,
     files |-> (ChunkFile :> seg), jsons |-> <<>>, response |-> Null,
     error |-> NoError, result |-> Null, merged |-> Null]

InitAdaptive ==
    /\ jobs = <<>>
    /\ chunks = <<>>
    /\ nextId = 1
    /\ transcripts = {}
    /\ running = FALSE
    /\ stopEvent = FALSE
    /\ stopAfterCurrent = FALSE
    /\ workers = [w \in WorkerIds |-> NoThread]
    /\ \E seg \in Segments : adaptive = Call(seg)
    /\ call = NoCall

Top == adaptive.stack[Len(adaptive.stack)]
Callers == SubSeq(adaptive.stack, 1, Len(adaptive.stack) - 1)

\* The for loop of an activation after one of its halves is dealt with: on to
\* the cut of the second half, or the two texts are merged and returned to the
\* activation below, which appends the text and goes on in the same way; the
\* outermost return ends the call.
RECURSIVE after_part(_)
after_part(stack) ==
    LET f == stack[Len(stack)]
        below == SubSeq(stack, 1, Len(stack) - 1)
        response == [transcript |-> merge_transcripts(f.texts)]
    IN IF f.part_idx = 0
         THEN [pc |-> "ffmpeg", result |-> Null,
               stack |-> [stack EXCEPT ![Len(stack)].part_idx = 1]]
         ELSE IF below = <<>>
           THEN [pc |-> "returned", stack |-> <<>>, result |-> response]
           ELSE after_part([below EXCEPT ![Len(below)].texts =
                                Append(@, extract_transcript_text(response))])

return_to(stack, response) ==
    IF stack = <<>> THEN [pc |-> "returned", stack |-> <<>>, result |-> response]
    ELSE after_part([stack EXCEPT ![Len(stack)].texts =
                         Append(@, extract_transcript_text(response))])

Raised(e) == [adaptive EXCEPT !.pc = "raised", !.stack = <<>>, !.error = e]

\* transcribe_audio returns a response, which it has written to its output
\* path, and the activation returns it.
transcribed(response) ==
    LET r == return_to(Callers, response)
    IN [adaptive EXCEPT !.pc = r.pc, !.stack = r.stack, !.result = r.result,
                        !.jsons = (Top.out :> response) @@ @]

\* The first transcribe_audio of an activation returns or raises: a timeout at
\* the floor is raised as FloorTimeout, a timeout above it starts the split,
\* any other (retryable) error is followed by a second request.
adaptive_transcribe ==
    /\ adaptive.pc = "transcribe_audio"
    /\ \E response \in ServiceResponses :
         LET a == [adaptive EXCEPT !.response = response]
         IN adaptive' =
              IF response = "ok"
                THEN [transcribed([transcript |-> <<adaptive.files[Top.audio]>>])
                        EXCEPT !.response = response]
              ELSE IF response = "oserror"
                THEN [Raised(ServiceError(response)) EXCEPT !.response = response]
              ELSE IF response = "error" THEN [a EXCEPT !.pc = "retry"]
              ELSE IF at_floor(Top.end_sec - Top.start_sec)
                THEN [a EXCEPT !.pc = "raised", !.stack = <<>>, !.error = FloorTimeout]
                ELSE [a EXCEPT !.pc = "ffmpeg"]
    /\ UNCHANGED <<jobs, chunks, nextId, transcripts, running, stopEvent, stopAfterCurrent,
                   workers, call>>

\* The second transcribe_audio returns, or raises whatever it raises.
\* (adaptive_retry_split: a timeout of the second request treated as one of
\* the first, a split above the floor.)
adaptive_retry_split ==
    /\ adaptive.pc = "retry"
    /\ \E response \in ServiceResponses :
         adaptive' =
           IF response = "ok"
             THEN [transcribed([transcript |-> <<adaptive.files[Top.audio]>>])
                     EXCEPT !.response = response]
           ELSE IF response = "timeout" /\ ~at_floor(Top.end_sec - Top.start_sec)
             THEN [adaptive EXCEPT !.response = response, !.pc = "ffmpeg"]
             ELSE [Raised(ServiceError(response)) EXCEPT !.response = response]
    /\ UNCHANGED <<jobs, chunks, nextId, transcripts, running, stopEvent, stopAfterCurrent,
                   workers, call>>

adaptive_retry ==
    /\ adaptive.pc = "retry"
    /\ \E response \in ServiceResponses :
         adaptive' =
           IF response = "ok"
             THEN [transcribed([transcript |-> <<adaptive.files[Top.audio]>>])
                     EXCEPT !.response = response]
             ELSE [Raised(ServiceError(response)) EXCEPT !.response = response]
    /\ UNCHANGED <<jobs, chunks, nextId, transcripts, running, stopEvent, stopAfterCurrent,
                   workers, call>>

\* run_subprocess_capture(ffmpeg ...) for the half in turn returns, having cut
\* the half or not, or raises (TimeoutExpired).  When the part file exists the
\* controller calls itself on it, otherwise it goes on without that half.
adaptive_ffmpeg ==
    /\ adaptive.pc = "ffmpeg"
    /\ LET f == Top
           part == adaptive_parts(f.start_sec, f.end_sec)[f.part_idx + 1]
           part_file == adaptive_name(f.start_sec, f.part_idx)
           ss == IF f.start_sec > 0 THEN part.start_sec - f.start_sec ELSE 0
           t == part.end_sec - part.start_sec
       IN \/ \E ran \in BOOLEAN :
               LET files == IF ran THEN ffmpeg_cut(adaptive.files, f.audio, part_file, ss, t)
                            ELSE adaptive.files
                   r == after_part(adaptive.stack)
               IN adaptive' =
                    IF part_file \in DOMAIN files
                      THEN [adaptive EXCEPT
                              !.files = files, !.pc = "transcribe_audio",
                              !.stack = Append(@, Frame(part_file, part_file,
                                                        part.start_sec, part.end_sec))]
                      ELSE [adaptive EXCEPT !.files = files, !.pc = r.pc,
                                            !.stack = r.stack, !.result = r.result]
          \/ adaptive' = Raised(Exception("TimeoutExpired"))
    /\ UNCHANGED <<jobs, chunks, nextId, transcripts, running, stopEvent, stopAfterCurrent,
                   workers, call>>

\* merge_transcript_files for the chunk: the text in chunk_NNN.json, nothing
\* when the file does not exist.
adaptive_merge ==
    /\ adaptive.pc = "returned"
    /\ adaptive' = [adaptive EXCEPT
                      !.pc = "merged",
                      !.merged = merge_transcripts(
                                   IF ChunkFile \in DOMAIN adaptive.jsons
                                     THEN <<extract_transcript_text(adaptive.jsons[ChunkFile])>>
                                     ELSE <<>>)]
    /\ UNCHANGED <<jobs, chunks, nextId, transcripts, running, stopEvent, stopAfterCurrent,
                   workers, call>>

NextAdaptive == adaptive_transcribe \/ adaptive_retry \/ adaptive_ffmpeg \/ adaptive_merge

SpecAdaptive == InitAdaptive /\ [][NextAdaptive]_vars

\* Every call the controller waits for returns or raises: the request to the
\* service and the ffmpeg run both carry a timeout.
SpecAdaptiveFair == SpecAdaptive /\ WF_vars(NextAdaptive)

\* ---- calls of the functions of the core modules ---------------------------
\* Nothing of the queue is in use while one function is called on its own.
NoQueue ==
    /\ jobs = <<>>
    /\ chunks = <<>>
    /\ nextId = 1
    /\ transcripts = {}
    /\ running = FALSE
    /\ stopEvent = FALSE
    /\ stopAfterCurrent = FALSE
    /\ workers = [w \in WorkerIds |-> NoThread]
    /\ adaptive = NoCall

\* A function is called with arguments; it has returned its result.
Called(fn, args) == [pc |-> "called", fn |-> fn, args |-> args, result |-> Null]
Calls(fn) == call.pc = "called" /\ call.fn = fn
Returned(fn) == call.pc = "returned" /\ call.fn = fn

\* The arguments create_chunk_manifest is called with: every small duration
\* with every chunk length above the overlap, and recordings of two to three
\* hours with the chunk length and overlap of the program.
MaxDuration == 12
MaxChunkSec == 6

ManifestArgs ==
    {[duration_sec |-> d, chunk_duration_sec |-> c, overlap_sec |-> o] :
        d \in 1..MaxDuration, c \in 1..MaxChunkSec, o \in 0..(MaxChunkSec - 1)}
    \cup {[duration_sec |-> d, chunk_duration_sec |-> BASE_CHUNK_SEC,
           overlap_sec |-> CHUNK_OVERLAP_SEC] : d \in {7201, 7202, 7203, 10800, 10801}}

InitManifest ==
    /\ NoQueue
    /\ \E args \in ManifestArgs :
         /\ args.chunk_duration_sec > args.overlap_sec
         /\ call = Called("create_chunk_manifest", args)

call_create_chunk_manifest ==
    /\ Calls("create_chunk_manifest")
    /\ call' = [call EXCEPT
                  !.pc = "returned",
                  !.result = create_chunk_manifest(call.args.duration_sec,
                                                   call.args.chunk_duration_sec,
                                                   call.args.overlap_sec)]
    /\ UNCHANGED <<jobs, chunks, nextId, transcripts, running, stopEvent, stopAfterCurrent,
                   workers, adaptive>>

SpecManifest == InitManifest /\ [][call_create_chunk_manifest]_vars

\* create_chunk_manifest one pass of its while loop at a time, for every chunk
\* length from 1 up, the overlap included or exceeded: base_chunk_sec is read
\* from the configuration file as it is (AppConfig.load and get validate
\* nothing), the overlap is CHUNK_OVERLAP_SEC. MaxEntries stops the model, not
\* the loop: a manifest whose starts increase has at most duration_sec entries.
MaxEntries == 14

InitManifestLoop ==
    /\ NoQueue
    /\ \E d \in 1..MaxDuration, c \in 1..MaxChunkSec, o \in 0..MaxChunkSec :
         call = [pc |-> "while", fn |-> "create_chunk_manifest",
                 args |-> [duration_sec |-> d, chunk_duration_sec |-> c, overlap_sec |-> o],
                 idx |-> 0, start |-> 0, chunks |-> <<>>, result |-> Null]

manifest_while ==
    /\ call.pc = "while"
    /\ Len(call.chunks) < MaxEntries
    /\ IF call.start < call.args.duration_sec
         THEN LET end == Min(call.start + call.args.chunk_duration_sec, call.args.duration_sec)
              IN call' = [call EXCEPT
                            !.chunks = Append(@, [idx |-> call.idx, start_sec |-> call.start,
                                                  end_sec |-> end]),
                            !.idx = @ + 1,
                            !.start = IF end < call.args.duration_sec
                                        THEN end - call.args.overlap_sec
                                        ELSE call.args.duration_sec]
         ELSE call' = [call EXCEPT !.pc = "returned", !.result = call.chunks]
    /\ UNCHANGED <<jobs, chunks, nextId, transcripts, running, stopEvent, stopAfterCurrent,
                   workers, adaptive>>

SpecManifestLoop == InitManifestLoop /\ [][manifest_while]_vars


\* The chunk thresholds a user can configure, in hours, and the durations
\* within a few seconds of each of them.
MaxThresholdHours == 3
MaxDelta == 3

ThresholdHours == 1..MaxThresholdHours
ThresholdDurations ==
    {h * 3600 + k : h \in ThresholdHours, k \in (0 - MaxDelta)..MaxDelta}

\* JobQueueManager.chunk_threshold_sec
chunk_threshold_sec(config) == config.chunk_threshold_hours * 3600

InitThreshold ==
    /\ NoQueue
    /\ \E d \in ThresholdDurations, h \in ThresholdHours :
         call = Called("needs_chunking",
                       [duration_sec |-> d, config |-> [chunk_threshold_hours |-> h]])

\* _process_deepgram_fallback decides between the chunked and the single-file
\* path: "if needs_chunking(duration)".
call_needs_chunking ==
    /\ Calls("needs_chunking")
    /\ call' = [call EXCEPT !.pc = "returned",
                            !.result = needs_chunking(call.args.duration_sec)]
    /\ UNCHANGED <<jobs, chunks, nextId, transcripts, running, stopEvent, stopAfterCurrent,
                   workers, adaptive>>

SpecThreshold == InitThreshold /\ [][call_needs_chunking]_vars

\* ---- merge.py: dedupe_overlap ----------------------------------------------
\* A text is the sequence of its words and of the white space between and
\* around them; Space and Paragraph are the white space " " and "\n\n".
Space == " "
Paragraph == "\n\n"
WhiteSpace == {Space, Paragraph}

\* str.split(), " ".join(words), str.rstrip(), str.lstrip()
split(text) == SelectSeq(text, LAMBDA t : t \notin WhiteSpace)

RECURSIVE join(_)
join(words) ==
    IF Len(words) <= 1 THEN words
    ELSE <<Head(words), Space>> \o join(Tail(words))

RECURSIVE rstrip(_)
rstrip(text) ==
    IF text # <<>> /\ text[Len(text)] \in WhiteSpace
      THEN rstrip(SubSeq(text, 1, Len(text) - 1))
      ELSE text

RECURSIVE lstrip(_)
lstrip(text) ==
    IF text # <<>> /\ Head(text) \in WhiteSpace THEN lstrip(Tail(text)) ELSE text

\* words[-n:] for n >= 1, and words[n:]
LastWords(words, n) == SubSeq(words, Len(words) - n + 1, Len(words))
WordsFrom(words, n) == SubSeq(words, n + 1, Len(words))

\* The for loop of dedupe_overlap, i running down from check_len to 1.
RECURSIVE overlap_loop(_, _, _)
overlap_loop(i, tail_a, words_b) ==
    IF i <= 0 THEN 0
    ELSE IF LastWords(tail_a, i) = SubSeq(words_b, 1, i) THEN i
    ELSE overlap_loop(i - 1, tail_a, words_b)

\* dedupe_overlap_three: ">= 3" written for "> 3".
dedupe_overlap_three(text_a, text_b, overlap_words) ==
    IF text_a = <<>> \/ text_b = <<>> THEN text_a \o <<Paragraph>> \o text_b
    ELSE LET words_a == split(text_a)
             words_b == split(text_b)
         IN IF words_a = <<>> \/ words_b = <<>> THEN text_a \o <<Paragraph>> \o text_b
            ELSE LET check_len == Min(Min(overlap_words, Len(words_a)), Len(words_b))
                     tail_a == IF check_len = 0 THEN words_a ELSE LastWords(words_a, check_len)
                     best_overlap == overlap_loop(check_len, tail_a, words_b)
                 IN IF best_overlap >= 3
                      THEN join(words_a) \o <<Space>> \o join(WordsFrom(words_b, best_overlap))
                      ELSE rstrip(text_a) \o <<Paragraph>> \o lstrip(text_b)

dedupe_overlap(text_a, text_b, overlap_words) ==
    IF text_a = <<>> \/ text_b = <<>> THEN text_a \o <<Paragraph>> \o text_b
    ELSE LET words_a == split(text_a)
             words_b == split(text_b)
         IN IF words_a = <<>> \/ words_b = <<>> THEN text_a \o <<Paragraph>> \o text_b
            ELSE LET check_len == Min(Min(overlap_words, Len(words_a)), Len(words_b))
                     tail_a == IF check_len = 0 THEN words_a ELSE LastWords(words_a, check_len)
                     best_overlap == overlap_loop(check_len, tail_a, words_b)
                 IN IF best_overlap > 3
                      THEN join(words_a) \o <<Space>> \o join(WordsFrom(words_b, best_overlap))
                      ELSE rstrip(text_a) \o <<Paragraph>> \o lstrip(text_b)

\* The texts dedupe_overlap is called with: every text of up to MaxWords words
\* out of two, with or without white space at the boundary, and the texts
\* "a b c d" and "c d e"; overlap windows from none to more than the words.
MaxWords == 5
MaxOverlapWords == 6

RECURSIVE WordLists(_)
WordLists(n) ==
    IF n = 0 THEN {<<>>}
    ELSE LET shorter == WordLists(n - 1)
         IN shorter \cup {Append(ws, w) : ws \in shorter, w \in {"a", "b"}}

TextsA ==
    {join(ws) \o trail : ws \in WordLists(MaxWords), trail \in {<<>>, <<Space>>}}
    \cup {join(<<"a", "b", "c", "d">>)}
TextsB ==
    {lead \o join(ws) : ws \in WordLists(MaxWords), lead \in {<<>>, <<Space>>}}
    \cup {join(<<"c", "d", "e">>)}

InitDedupe ==
    /\ NoQueue
    /\ \E text_a \in TextsA, text_b \in TextsB, overlap_words \in 0..MaxOverlapWords :
         call = Called("dedupe_overlap",
                       [text_a |-> text_a, text_b |-> text_b, overlap_words |-> overlap_words])

call_dedupe_overlap ==
    /\ Calls("dedupe_overlap")
    /\ call' = [call EXCEPT
                  !.pc = "returned",
                  !.result = dedupe_overlap(call.args.text_a, call.args.text_b,
                                            call.args.overlap_words)]
    /\ UNCHANGED <<jobs, chunks, nextId, transcripts, running, stopEvent, stopAfterCurrent,
                   workers, adaptive>>

SpecDedupe == InitDedupe /\ [][call_dedupe_overlap]_vars

\* ---- audio_select.py ------------------------------------------------------
PREFERRED_ABR_KBPS == 96
MIN_ABR_KBPS == 64
MAX_ABR_KBPS == 128

\* fmt.get('abr') is None, or float(abr) fails.
NoAbr == -1

Abs(x) == IF x < 0 THEN 0 - x ELSE x

\* The audio-only formats, as the entries the selector keeps of them.
audio_only(formats) ==
    SelectSeq(formats, LAMBDA fmt : fmt.vcodec \in {"none", Null, ""}
                                    /\ fmt.acodec \notin {"none", Null, ""})

\* list.sort(key=...)[0]: the first entry among those of the least key; keys
\* are numbers or pairs of numbers.
KeyLess(k, l) ==
    IF k[1] # l[1] THEN k[1] < l[1] ELSE k[2] < l[2]

sort_first(streams, keys) ==
    LET least == CHOOSE i \in 1..Len(streams) :
                     /\ \A j \in 1..Len(streams) : ~KeyLess(keys[j], keys[i])
                     /\ \A j \in 1..(i - 1) : KeyLess(keys[i], keys[j])
    IN streams[least]

\* above_floor_all: the floor test left out.
above_floor_all(with_abr) == with_abr

above_floor(with_abr) == SelectSeq(with_abr, LAMBDA s : s.abr >= MIN_ABR_KBPS)

\* The sort key of the streams in range (in_range_key_low: the tie broken
\* towards the lower bitrate).
in_range_key_low(s) == <<Abs(s.abr - PREFERRED_ABR_KBPS), s.abr>>

in_range_key(s) == <<Abs(s.abr - PREFERRED_ABR_KBPS), 0 - s.abr>>

lowest_key(s) == <<s.abr, 0>>
highest_key(s) == <<0 - s.abr, 0>>

\* The keys of the streams of a list, in the order of the list.
Keys(streams, key(_)) == [n \in 1..Len(streams) |-> key(streams[n])]

select_audio_stream(metadata) ==
    LET audio_streams == audio_only(metadata.formats)
        with_abr == SelectSeq(audio_streams, LAMBDA s : s.abr # NoAbr /\ s.abr > 0)
        in_range == SelectSeq(above_floor(with_abr), LAMBDA s : s.abr <= MAX_ABR_KBPS)
        chosen(selected, reason) ==
            [format_id |-> selected.format_id, abr |-> selected.abr,
             selection_reason |-> reason]
    IN IF audio_streams = <<>>
         THEN [format_id |-> "bestaudio", abr |-> NoAbr,
               selection_reason |-> "No audio-only streams found; using bestaudio fallback"]
       ELSE IF with_abr = <<>>
         THEN chosen(audio_streams[1], "No reliable ABR data; chose first audio-only stream")
       ELSE IF above_floor(with_abr) = <<>>
         THEN chosen(sort_first(with_abr, Keys(with_abr, highest_key)),
                     "No stream >= floor; chose highest available")
       ELSE IF in_range = <<>>
         THEN chosen(sort_first(above_floor(with_abr), Keys(above_floor(with_abr), lowest_key)),
                     "No stream in range; chose lowest above floor")
       ELSE chosen(sort_first(in_range, Keys(in_range, in_range_key)),
                   "Closest to preferred in range")

\* The format lists of a video: up to MaxStreams formats, audio-only or with
\* video, of the bitrates below or without one; a format's id is its place.
MaxStreams == 3

Abrs == {NoAbr, 0, 32, 64, 80, 96, 112, 128, 160}

RECURSIVE FormatLists(_)
FormatLists(n) ==
    IF n = 0 THEN {<<>>}
    ELSE LET shorter == FormatLists(n - 1)
         IN shorter \cup
            {Append(fs, [format_id |-> Len(fs) + 1, vcodec |-> v, acodec |-> "opus", abr |-> a]) :
               fs \in {f \in shorter : Len(f) = n - 1}, v \in {"none", "avc1"}, a \in Abrs}

InitSelect ==
    /\ NoQueue
    /\ \E formats \in FormatLists(MaxStreams) :
         call = Called("select_audio_stream", [metadata |-> [formats |-> formats]])

call_select_audio_stream ==
    /\ Calls("select_audio_stream")
    /\ call' = [call EXCEPT !.pc = "returned",
                            !.result = select_audio_stream(call.args.metadata)]
    /\ UNCHANGED <<jobs, chunks, nextId, transcripts, running, stopEvent, stopAfterCurrent,
                   workers, adaptive>>

SpecSelect == InitSelect /\ [][call_select_audio_stream]_vars

\* ---- transcribe_deepgram.py: the requests for one segment ------------------
MAX_RATE_LIMIT_RETRIES == 4
RATE_LIMIT_BASE_DELAY == 2

\* How one requests.post ends: with an HTTP status (200 with a JSON body or
\* with one that does not parse), or with an exception of requests.
HttpOutcomes == {"200", "200 no JSON", "429", "500", "504", "Timeout", "ConnectionError"}

RateLimited ==
    JobErrorFlag("ERR_NETWORK_TRANSIENT", "Deepgram rate limited (429) after 4 retries", TRUE)

\* What transcribe_audio raises for an outcome that ends it with an error.
request_error(outcome) ==
    CASE outcome \in {"Timeout", "504"} ->
           JobErrorFlag("ERR_DEEPGRAM_TIMEOUT", "Deepgram request timed out", TRUE)
      [] outcome = "ConnectionError" ->
           JobErrorFlag("ERR_NETWORK_TRANSIENT", "Network error connecting to Deepgram", TRUE)
      [] outcome = "429" -> RateLimited
      [] outcome = "200 no JSON" ->
           JobError("ERR_DEEPGRAM_TRANSCRIBE_FAILED", "Failed to parse Deepgram response JSON")
      [] OTHER -> JobError("ERR_DEEPGRAM_TRANSCRIBE_FAILED", "Deepgram returned 500")

\* The segments the requests are made for: at the floor and above it.
InitRequests ==
    /\ NoQueue
    /\ \E seg \in {<<Sec(0), Sec(MIN_CHUNK_SEC)>>, <<Sec(0), Sec(1200)>>} :
         call = [pc |-> "post", fn |-> "_transcribe_with_adaptive_retry",
                 args |-> [start_sec |-> seg[1], end_sec |-> seg[2]],
                 call_no |-> 1, attempt |-> 0, outcomes |-> <<>>, delays |-> <<>>,
                 error |-> NoError, result |-> Null]

\* transcribe_audio has raised e in the controller: a timeout of the first
\* call is raised at the floor and starts the split above it, another error
\* of the first call is followed by the second call, and an error of the
\* second call is raised.
controller_except(c, e) ==
    IF c.call_no = 2 THEN [c EXCEPT !.pc = "raised", !.error = e]
    ELSE IF e.code # "ERR_DEEPGRAM_TIMEOUT"
      THEN IF e.retryable THEN [c EXCEPT !.call_no = 2, !.attempt = 0]
           ELSE [c EXCEPT !.pc = "raised", !.error = e]
    ELSE IF at_floor(c.args.end_sec - c.args.start_sec)
      THEN [c EXCEPT !.pc = "raised", !.error = FloorTimeout]
      ELSE [c EXCEPT !.pc = "split"]

\* One requests.post of transcribe_audio ends: the loop sleeps and goes on
\* after a 429 while attempts are left, returns the response of a 200, and
\* raises otherwise.
requests_post ==
    /\ call.pc = "post"
    /\ \E outcome \in HttpOutcomes :
         LET c == [call EXCEPT !.outcomes = Append(@, outcome)]
         IN call' =
              IF outcome = "200"
                THEN [c EXCEPT !.pc = "returned", !.result = "response"]
              ELSE IF outcome = "429" /\ c.attempt < MAX_RATE_LIMIT_RETRIES
                THEN [c EXCEPT !.attempt = @ + 1,
                               !.delays = Append(@, RATE_LIMIT_BASE_DELAY * (2 ^ c.attempt))]
                ELSE controller_except(c, request_error(outcome))
    /\ UNCHANGED <<jobs, chunks, nextId, transcripts, running, stopEvent, stopAfterCurrent,
                   workers, adaptive>>

SpecRequests == InitRequests /\ [][requests_post]_vars

\* ---- specifications -------------------------------------------------------
Control ==
    \/ add_urls
    \/ start_processing
    \/ stop_processing
    \/ stop_after_current
    \/ retry_job
    \/ remove_job
    \/ clear_queue

\* The program as built.
Next ==
    \/ Control
    \/ \E w \in WorkerIds :
        \/ worker_loop(w)
        \/ process_job_validate(w)
        \/ handle_unexpected(w)

Spec == Init /\ [][Next]_vars

SpecStored == InitStored /\ [][Next]_vars

\* The orchestrator over a store that has the _lock attribute.
Stages(w) ==
    \/ process_job_validate_locked(w)
    \/ check_duplicate_on_disk(w)
    \/ process_job_metadata(w)
    \/ process_job_captions(w)
    \/ captions_path_parse(w)
    \/ captions_path_write(w)
    \/ captions_path_complete(w)
    \/ fallback_api_key(w)
    \/ fallback_select(w)
    \/ fallback_download(w)
    \/ fallback_normalize(w)
    \/ fallback_split(w)
    \/ transcribe_chunks(w)
    \/ fallback_transcribe_single(w)
    \/ fallback_merge(w)
    \/ fallback_write(w)
    \/ fallback_complete(w)
    \/ handle_job_error(w)
    \/ handle_unexpected(w)

Pipeline(w) == worker_loop(w) \/ Stages(w)

NextLocked == Control \/ \E w \in WorkerIds : Pipeline(w)

SpecLocked == InitStored /\ [][NextLocked]_vars

\* The worker thread on its own: the store of an earlier session, the queue as
\* add_urls filled it, start_processing has just started the thread, and no
\* public method is called until it exits. Every collaborator call returns, so
\* the thread takes its next step.
InitWorker ==
    /\ \E urls \in UrlLists :
        LET r == add_urls_loop((1 :> StoredJob), 2, urls)
        IN /\ r.next <= MaxJobs + 1
           /\ jobs = r.jobs
           /\ nextId = r.next
    /\ chunks = <<>>
    /\ transcripts = {"AAAAAAAAAAA"}
    /\ running = TRUE
    /\ stopEvent = FALSE
    /\ stopAfterCurrent = FALSE
    /\ workers = [w \in WorkerIds |-> IF w = 1 THEN AtLoop ELSE NoThread]
    /\ adaptive = NoCall
    /\ call = NoCall

NextWorker == \E w \in WorkerIds : Pipeline(w)

SpecWorker == InitWorker /\ [][NextWorker]_vars /\ WF_vars(NextWorker)

\* Two worker threads at the head of the loop (stop_processing followed by
\* start_processing while the first thread was in a job, then both back at the
\* loop), with the two store calls of one pass as two steps: get_queued_jobs in
\* _worker_loop, and the update that marks the job RUNNING in _process_job.
\* Nothing orders the calls of one thread against those of the other.
InitTaken ==
    /\ \E url \in Urls :
        LET r == add_urls_loop((1 :> StoredJob), 2, <<url>>)
        IN /\ jobs = r.jobs
           /\ nextId = r.next
    /\ chunks = <<>>
    /\ transcripts = {"AAAAAAAAAAA"}
    /\ running = TRUE
    /\ stopEvent = FALSE
    /\ stopAfterCurrent = FALSE
    /\ workers = [w \in WorkerIds |-> AtLoop]
    /\ adaptive = NoCall
    /\ call = NoCall

\* _worker_loop up to the call of _process_job(queued[0]).
worker_loop_queued(w) ==
    /\ workers[w].pc = "loop"
    /\ IF stopEvent \/ stopAfterCurrent \/ get_queued_jobs(jobs) = {}
         THEN /\ running' = FALSE
              /\ workers' = [workers EXCEPT ![w] = NoThread]
         ELSE LET id == Oldest(get_queued_jobs(jobs))
              IN /\ workers' = [workers EXCEPT ![w] =
                                  [workers[w] EXCEPT !.pc = "process_job",
                                                     !.job = id,
                                                     !.url = jobs[id].youtube_url]]
                 /\ running' = running
    /\ UNCHANGED <<jobs, chunks, nextId, transcripts, stopEvent, stopAfterCurrent, adaptive, call>>

\* _process_job: "Mark as RUNNING", up to the call of validate_youtube_url.
process_job_running(w) ==
    /\ workers[w].pc = "process_job"
    /\ jobs' = update_job_status(jobs, workers[w].job, RUNNING, "VALIDATING_URL",
                                 PROGRESS_VALIDATE, <<>>)
    /\ workers' = [workers EXCEPT ![w].pc = "validate_youtube_url"]
    /\ UNCHANGED <<chunks, nextId, transcripts, running, stopEvent, stopAfterCurrent, adaptive, call>>

NextTaken == \E w \in WorkerIds : worker_loop_queued(w) \/ process_job_running(w) \/ Stages(w)

SpecTaken == InitTaken /\ [][NextTaken]_vars



\* ---- properties -----------------------------------------------------------
\* The step in which worker w leaves _process_job for the loop head.
RunEnds(w) == workers[w].pc \notin {"none", "loop"} /\ workers'[w].pc = "loop"

\* The step in which worker w runs _handle_job_error / the except Exception clause.
HandlesJobError(w) ==
    workers[w].pc = "except" /\ workers[w].error.kind = "JobError" /\ RunEnds(w)

HandlesUnexpected(w) ==
    workers[w].pc = "except" /\ workers[w].error.kind = "Exception" /\ RunEnds(w)

\* The step in which validate_youtube_url returns to worker w and the duplicate
\* check runs.
ChecksDuplicate(w) ==
    workers[w].pc = "validate_youtube_url" /\ workers'[w].pc # "validate_youtube_url"

CompletedElsewhere(id, video_id) ==
    \E j \in DOMAIN jobs : j # id /\ jobs[j].video_id = video_id /\ jobs[j].status = COMPLETED

LockMissing == Exception("'Database' object has no attribute '_lock'")

\* C1: in every reachable state at most one job has status RUNNING.
C1_AtMostOneRunning ==
    Cardinality({id \in DOMAIN jobs : jobs[id].status = RUNNING}) <= 1

\* C2: a picked job whose video id has no COMPLETED job and no transcript on
\* disk passes the duplicate check (the worker goes on to the next stage), and
\* a run in which no stage raised a job error ends with the job COMPLETED, and
\* then with stage cleanup and progress 100 (SKIPPED only for a duplicate).
C2_CompletesWhenAllSucceed ==
    [][\A w \in WorkerIds :
        LET id == workers[w].job
        IN /\ ( /\ ChecksDuplicate(w)
                /\ id \in DOMAIN jobs
                /\ extract_video_id(workers[w].url) # Null
                /\ ~CompletedElsewhere(id, extract_video_id(workers[w].url))
                /\ extract_video_id(workers[w].url) \notin transcripts )
              => workers'[w].pc \notin {"except", "loop"}
           /\ ( /\ RunEnds(w)
                /\ workers[w].error.kind # "JobError"
                /\ id \in DOMAIN jobs
                /\ id \in DOMAIN jobs' )
              => /\ jobs'[id].status \in {COMPLETED, SKIPPED}
                 /\ jobs'[id].status = COMPLETED
                      => jobs'[id].stage = "CLEANUP" /\ jobs'[id].progress_pct = 100
                 /\ jobs'[id].status = SKIPPED
                      => \/ CompletedElsewhere(id, jobs'[id].video_id)
                         \/ jobs'[id].video_id \in transcripts
    ]_vars

\* C3: a job whose duplicate check runs while another job with the same video
\* id is COMPLETED is marked SKIPPED by that check, and a SKIPPED job is never
\* made RUNNING.
C3_DuplicateSkipped ==
    [][/\ \A w \in WorkerIds :
            LET id == workers[w].job
            IN ( /\ ChecksDuplicate(w)
                 /\ id \in DOMAIN jobs
                 /\ id \in DOMAIN jobs'
                 /\ CompletedElsewhere(id, extract_video_id(workers[w].url)) )
               => jobs'[id].status = SKIPPED
       /\ \A id \in DOMAIN jobs \cap DOMAIN jobs' :
            jobs[id].status = SKIPPED => jobs'[id].status # RUNNING
    ]_vars

\* C4: the duplicate check runs inside the critical section of the store:
\* entering "with self.db._lock" never fails, so no worker handles the
\* exception of a store without lock.
C4_CheckInCriticalSection ==
    \A w \in WorkerIds : ~(workers[w].pc = "except" /\ workers[w].error = LockMissing)

\* C5: a retryable job error requeues the job when its retry count is below
\* MAX_AUTO_RETRIES (the count goes from 0 to 1) and fails it otherwise; the
\* retry count changes in no other way, so there is no second automatic requeue.
C5_RequeuedExactlyOnce ==
    [][/\ \A w \in WorkerIds :
            LET id == workers[w].job
            IN ( /\ HandlesJobError(w)
                 /\ workers[w].error.retryable
                 /\ id \in DOMAIN jobs
                 /\ id \in DOMAIN jobs' )
               => IF jobs[id].retry_count < MAX_AUTO_RETRIES
                    THEN /\ jobs'[id].status = QUEUED
                         /\ jobs[id].retry_count = 0
                         /\ jobs'[id].retry_count = MAX_AUTO_RETRIES
                    ELSE /\ jobs'[id].status = FAILED
                         /\ jobs'[id].retry_count = jobs[id].retry_count
       /\ \A id \in DOMAIN jobs \cap DOMAIN jobs' :
            /\ jobs'[id].retry_count # jobs[id].retry_count
                 => jobs[id].retry_count = 0 /\ jobs'[id].retry_count = 1
            /\ (jobs[id].status = RUNNING /\ jobs'[id].status = QUEUED)
                 => jobs[id].retry_count = 0 /\ jobs'[id].retry_count = 1
    ]_vars

\* C5 happens: a job failed on a retryable error after its one automatic requeue.
C5_Witness ==
    \E id \in DOMAIN jobs :
        /\ jobs[id].status = FAILED
        /\ jobs[id].retry_count = MAX_AUTO_RETRIES
        /\ jobs[id].error_code \in RETRYABLE_ERRORS

\* C6: a non-retryable job error moves the job from RUNNING to FAILED with the
\* error's code and message stored, whatever the retry count, which it leaves
\* unchanged.
C6_NonRetryableFails ==
    [][\A w \in WorkerIds :
        LET id == workers[w].job
        IN ( /\ HandlesJobError(w)
             /\ ~workers[w].error.retryable
             /\ id \in DOMAIN jobs
             /\ id \in DOMAIN jobs' )
           => /\ jobs[id].status = RUNNING
              /\ jobs'[id].status = FAILED
              /\ jobs'[id].error_code = workers[w].error.code
              /\ jobs'[id].error_message = workers[w].error.message
              /\ jobs'[id].retry_count = jobs[id].retry_count
    ]_vars

\* C6 happens: a job that had already been requeued once failed on a
\* non-retryable error.
C6_Witness ==
    \E id \in DOMAIN jobs :
        /\ jobs[id].status = FAILED
        /\ jobs[id].retry_count = 1
        /\ jobs[id].error_code \in NonRetryableCodes

\* C7: an unexpected exception requeues a job that has not yet been
\* auto-retried.
C7_UnexpectedRequeuedOnce ==
    [][\A w \in WorkerIds :
        LET id == workers[w].job
        IN ( /\ HandlesUnexpected(w)
             /\ id \in DOMAIN jobs
             /\ id \in DOMAIN jobs'
             /\ jobs[id].retry_count < MAX_AUTO_RETRIES )
           => jobs'[id].status = QUEUED
    ]_vars

\* C8: the abort raised for a user stop at a chunk boundary returns the job to
\* QUEUED, whatever its retry count.
C8_StopLeavesResumable ==
    [][\A w \in WorkerIds :
        LET id == workers[w].job
        IN ( /\ HandlesJobError(w)
             /\ workers[w].error = StoppedByUser
             /\ id \in DOMAIN jobs
             /\ id \in DOMAIN jobs' )
           => jobs'[id].status = QUEUED
    ]_vars

\* C9: every job error the orchestrator handles is stored on the job with its
\* code and message, also when the job is requeued.
C9_FailureRecorded ==
    [][\A w \in WorkerIds :
        LET id == workers[w].job
        IN ( /\ HandlesJobError(w)
             /\ id \in DOMAIN jobs
             /\ id \in DOMAIN jobs' )
           => /\ jobs'[id].error_code = workers[w].error.code
              /\ jobs'[id].error_message = workers[w].error.message
    ]_vars

\* C10: a job that re-enters QUEUED has stage null, progress 0 and no error
\* code or message; when it comes from RUNNING (automatic requeue) its retry
\* count has grown by exactly one.
C10_RequeueResets ==
    [][\A id \in DOMAIN jobs \cap DOMAIN jobs' :
        (jobs[id].status # QUEUED /\ jobs'[id].status = QUEUED)
          => /\ jobs'[id].stage = Null
             /\ jobs'[id].progress_pct = 0
             /\ jobs'[id].error_code = Null
             /\ jobs'[id].error_message = Null
             /\ jobs[id].status = RUNNING
                  => jobs'[id].retry_count = jobs[id].retry_count + 1
             /\ jobs[id].status \in {RUNNING, FAILED}
    ]_vars

\* C10 happens: a job is QUEUED that has been through an automatic requeue and,
\* after a failure, a manual retry.
C10_Witness ==
    \E id \in DOMAIN jobs :
        /\ jobs[id].status = QUEUED
        /\ jobs[id].retry_count = 1
        /\ jobs[id].completed_at = "set"


C12_CompletedOnlyTerminal ==
    \A id \in DOMAIN jobs :
        jobs[id].completed_at # Null => jobs[id].status \in {COMPLETED, FAILED, SKIPPED}


\* C13: a QUEUED job has no chunk records, and no chunk record refers to a
\* job that was removed.
C13_QueuedHasNoChunks ==
    \A c \in DOMAIN chunks :
        /\ c[1] \in DOMAIN jobs
        /\ jobs[c[1]].status # QUEUED


\* C14: a worker that was processing a job when stop_after_current was called
\* is not stopped inside that job by the signal, and at the loop head it exits:
\* it moves no further job to RUNNING.
C14_StopAfterCurrent ==
    [][\A w \in WorkerIds :
        workers[w].signalled
          => /\ (~stopEvent => workers'[w].error # StoppedByUser)
             /\ workers[w].pc = "loop"
                  => /\ workers'[w].pc \in {"loop", "none"}
                     /\ \A id \in DOMAIN jobs \cap DOMAIN jobs' :
                          workers'[w].pc = "none" => jobs'[id] = jobs[id]
    ]_vars


\* C15: while the stop event is set, a worker whose external call (disk,
\* network, subprocess) returns starts no further stage of its job (it leaves
\* _process_job), and a worker at the loop head picks no job.
C15_ImmediateStop ==
    [][\A w \in WorkerIds :
        ( /\ stopEvent
          /\ workers[w].pc \notin {"none", "validate_youtube_url"}
          /\ workers'[w].pc # workers[w].pc )
          => workers'[w].pc \in {"except", "loop", "none"}
    ]_vars


\* C16: once the controller has returned a chunk's text and the chunk merge has
\* read the chunk's transcript file, the merged text is the text the
\* controller obtained (whole or merged from sub-segments).
C16_MergeHasEveryChunk ==
    adaptive.pc = "merged"
      => adaptive.merged = extract_transcript_text(adaptive.result)

\* C17: a timeout answered to a request for a segment whose duration is at or
\* below the floor makes the controller raise a timeout error (the floor
\* timeout error when it is the first request for the segment), and it cuts
\* no audio for it.
C17_FloorTimeoutRaises ==
    [][( /\ adaptive.pc \in {"transcribe_audio", "retry"}
         /\ adaptive' # adaptive
         /\ adaptive'.response = "timeout"
         /\ Top.end_sec - Top.start_sec <= Sec(MIN_CHUNK_SEC) )
       => /\ adaptive'.pc = "raised"
          /\ adaptive'.error.code = "ERR_DEEPGRAM_TIMEOUT"
          /\ adaptive.pc = "transcribe_audio" => adaptive'.error = FloorTimeout
          /\ adaptive'.files = adaptive.files
    ]_vars

\* C17 happens: the floor timeout error was raised for a segment of exactly
\* the floor duration, with no audio cut.
C17_Witness ==
    /\ adaptive.pc = "raised"
    /\ adaptive.error = FloorTimeout
    /\ adaptive.response = "timeout"
    /\ adaptive.files = (ChunkFile :> <<0, Sec(MIN_CHUNK_SEC)>>)

\* C18: the floor timeout error is terminal: the job it reaches the
\* orchestrator for fails with that error and is not requeued.
C18_FloorTimeoutTerminal ==
    [][\A w \in WorkerIds :
        LET id == workers[w].job
        IN ( /\ HandlesJobError(w)
             /\ workers[w].error = FloorTimeout
             /\ id \in DOMAIN jobs
             /\ id \in DOMAIN jobs' )
           => /\ jobs'[id].status = FAILED
              /\ jobs'[id].error_code = FloorTimeout.code
              /\ jobs'[id].retry_count = jobs[id].retry_count
    ]_vars


\* The activations a call of the given duration can stack at most: the longer
\* half of a split is half the segment plus the two seconds of overlap.
RECURSIVE max_depth(_)
max_depth(duration) ==
    IF at_floor(duration) THEN 1 ELSE 1 + max_depth(duration \div 2 + Sec(2))

Duration(f) == f.end_sec - f.start_sec

\* C19: the recursive split terminates: the controller returns or raises in
\* the end, and until then every activation is for a segment strictly shorter
\* than the one of its caller, no caller's segment is at or below the floor,
\* and the stack is no deeper than the halvings of the first segment allow.
C19_SplitTerminates ==
    /\ [](/\ \A i \in 2..Len(adaptive.stack) :
               /\ Duration(adaptive.stack[i]) < Duration(adaptive.stack[i - 1])
               /\ ~at_floor(Duration(adaptive.stack[i - 1]))
          /\ adaptive.pc = "ffmpeg" => ~at_floor(Duration(Top))
          /\ adaptive.stack # <<>> =>
               Len(adaptive.stack) <= max_depth(Duration(adaptive.stack[1])))
    /\ <>(adaptive.pc \in {"returned", "raised"})

\* C19 happens: a 20-minute segment split three times over, down to a half at
\* the floor, and the call has returned.
C19_Witness ==
    /\ adaptive.pc = "returned"
    /\ adaptive_name(Sec(1200) - Sec(303), 1) \in DOMAIN adaptive.files

\* C20: the audio file of every half the controller transcribes spans, in
\* recording time, the interval split_chunk_in_half gives for that half of the
\* caller's segment: [start, mid] for the first, [mid - overlap, end] for the
\* second, whatever the start.
C20_HalvesSpanTheSplit ==
    \A i \in 2..Len(adaptive.stack) :
        LET caller == adaptive.stack[i - 1]
            half == split_chunk_in_half(caller.start_sec, caller.end_sec)[caller.part_idx + 1]
        IN adaptive.files[adaptive.stack[i].audio] = <<half.start_sec, half.end_sec>>

\* C21: for a duration above 0 and a chunk length above the overlap, the
\* manifest's entries are numbered 0, 1, 2, ..., each ends after it starts, the
\* first starts at 0, the last ends at the duration, no entry starts after the
\* end of the one before it, and an entry after one that ends before the
\* duration starts exactly the overlap before that end.
C21_ManifestCovers ==
    Returned("create_chunk_manifest") =>
        LET m == call.result
        IN /\ Len(m) >= 1
           /\ \A n \in 1..Len(m) : m[n].idx = n - 1 /\ m[n].end_sec > m[n].start_sec
           /\ m[1].start_sec = 0
           /\ m[Len(m)].end_sec = call.args.duration_sec
           /\ \A n \in 1..(Len(m) - 1) :
                /\ m[n + 1].start_sec <= m[n].end_sec
                /\ m[n].end_sec < call.args.duration_sec
                     => m[n + 1].start_sec = m[n].end_sec - call.args.overlap_sec

\* C21 happens: a manifest of at least three entries with a positive overlap
\* and a last entry shorter than the chunk length has been returned.
C21_Witness ==
    /\ Returned("create_chunk_manifest")
    /\ call.args.overlap_sec > 0
    /\ Len(call.result) >= 3
    /\ LET last == call.result[Len(call.result)]
       IN last.end_sec - last.start_sec < call.args.chunk_duration_sec

\* C22: for a recording of 10800 s, a chunk length of 3600 s and an overlap
\* of 2 s the manifest is exactly [0, 3600], [3598, 7200], [7198, 10800].
C22_ThreeHourManifest ==
    ( /\ Returned("create_chunk_manifest")
      /\ call.args = [duration_sec |-> 10800, chunk_duration_sec |-> 3600, overlap_sec |-> 2] )
    => call.result = <<[idx |-> 0, start_sec |-> 0, end_sec |-> 3600],
                       [idx |-> 1, start_sec |-> 3598, end_sec |-> 7200],
                       [idx |-> 2, start_sec |-> 7198, end_sec |-> 10800]>>

\* C23: the chunked path is taken exactly when the duration exceeds the
\* configured chunk threshold.
C23_ChunkedIffOverThreshold ==
    Returned("needs_chunking") =>
        (call.result <=> call.args.duration_sec > chunk_threshold_sec(call.args.config))

\* The largest i up to the window and both word counts for which the last i
\* words of the first list are the first i words of the second; 0 if none.
LargestOverlap(words_a, words_b, overlap_words) ==
    LET n == Min(Min(overlap_words, Len(words_a)), Len(words_b))
        matches == {i \in 1..n : LastWords(words_a, i) = SubSeq(words_b, 1, i)}
    IN IF matches = {} THEN 0 ELSE CHOOSE i \in matches : \A j \in matches : j <= i

\* C24: with i the largest overlap of the last words of A and the first words
\* of B within the window, the result of dedupe_overlap has, for i > 3, the
\* words of A followed by the words of B without its first i; for i <= 3 it is
\* A, a paragraph separator, B, with every word of both kept (and exactly A
\* and B around the separator when no white space is at the boundary).
C24_DedupeOverlap ==
    Returned("dedupe_overlap") =>
        LET text_a == call.args.text_a
            text_b == call.args.text_b
            words_a == split(text_a)
            words_b == split(text_b)
            i == LargestOverlap(words_a, words_b, call.args.overlap_words)
        IN IF i > 3
             THEN split(call.result) = words_a \o WordsFrom(words_b, i)
             ELSE /\ \E p \in 1..Len(call.result) :
                       /\ call.result[p] = Paragraph
                       /\ split(SubSeq(call.result, 1, p - 1)) = words_a
                       /\ split(SubSeq(call.result, p + 1, Len(call.result))) = words_b
                  /\ (rstrip(text_a) = text_a /\ lstrip(text_b) = text_b)
                       => call.result = text_a \o <<Paragraph>> \o text_b

\* C24 happens: five words of which the last four were repeated at the start
\* of the next text were merged with the four left out.
C24_Witness ==
    /\ Returned("dedupe_overlap")
    /\ call.args.text_a = join(<<"a", "a", "b", "a", "b">>)
    /\ call.args.text_b = join(<<"a", "b", "a", "b", "b">>)
    /\ call.args.overlap_words = 5
    /\ call.result = join(<<"a", "a", "b", "a", "b", "b">>)

\* The places of a list of words where the given words follow one another.
Occurrences(words, sought) ==
    {p \in 1..(Len(words) - Len(sought) + 1) :
        SubSeq(words, p, p + Len(sought) - 1) = sought}

\* C25: dedupe_overlap of "a b c d" and "c d e" with a window of at least two
\* words gives a text in which the words "c d" occur exactly once.
C25_BoundaryWordsOnce ==
    ( /\ Returned("dedupe_overlap")
      /\ call.args.text_a = join(<<"a", "b", "c", "d">>)
      /\ call.args.text_b = join(<<"c", "d", "e">>)
      /\ call.args.overlap_words >= 2 )
    => Cardinality(Occurrences(split(call.result), <<"c", "d">>)) = 1

\* The usable bitrates of the audio-only formats of a call of the selector.
UsableAbrs ==
    LET formats == call.args.metadata.formats
    IN {formats[n].abr : n \in {m \in 1..Len(formats) :
                                   /\ formats[m].vcodec = "none"
                                   /\ formats[m].abr # NoAbr
                                   /\ formats[m].abr > 0}}

\* The returned stream is one of the audio-only formats, with its bitrate.
SelectedIsAudioOnly ==
    \E n \in 1..Len(call.args.metadata.formats) :
        LET fmt == call.args.metadata.formats[n]
        IN fmt.format_id = call.result.format_id /\ fmt.abr = call.result.abr
           /\ fmt.vcodec = "none"

\* C26: when an audio-only stream has a usable bitrate at or above the floor
\* of 64 kbps the selector returns a stream of at least 64 kbps; a stream of a
\* usable bitrate below the floor is returned only when no usable bitrate
\* meets the floor, and it is then the highest one.
C26_FloorEnforced ==
    Returned("select_audio_stream") =>
        /\ (\E a \in UsableAbrs : a >= MIN_ABR_KBPS)
             => SelectedIsAudioOnly /\ call.result.abr >= MIN_ABR_KBPS
        /\ (call.result.abr # NoAbr /\ call.result.abr > 0
              /\ call.result.abr < MIN_ABR_KBPS)
             => /\ SelectedIsAudioOnly
                /\ \A a \in UsableAbrs : a < MIN_ABR_KBPS /\ a <= call.result.abr

\* C26 happens: 64 kbps was selected from a list with a 32 kbps stream first.
C26_Witness ==
    /\ Returned("select_audio_stream")
    /\ Len(call.args.metadata.formats) = 2
    /\ call.args.metadata.formats[1].vcodec = "none"
    /\ call.args.metadata.formats[1].abr = 32
    /\ call.args.metadata.formats[2].vcodec = "none"
    /\ call.args.metadata.formats[2].abr = 64
    /\ call.result.format_id = 2

\* C27: when an audio-only stream has a bitrate within 64..128 kbps the
\* selector returns a stream in that band whose bitrate is the closest to
\* 96 kbps, the higher one of two equally close, whatever the order of the list.
C27_ClosestToPreferred ==
    LET in_band == {a \in UsableAbrs : MIN_ABR_KBPS <= a /\ a <= MAX_ABR_KBPS}
    IN (Returned("select_audio_stream") /\ in_band # {}) =>
         /\ SelectedIsAudioOnly
         /\ call.result.abr \in in_band
         /\ \A a \in in_band :
              \/ Abs(call.result.abr - PREFERRED_ABR_KBPS) < Abs(a - PREFERRED_ABR_KBPS)
              \/ /\ Abs(call.result.abr - PREFERRED_ABR_KBPS) = Abs(a - PREFERRED_ABR_KBPS)
                 /\ call.result.abr >= a

\* C27 happens: 128 kbps was selected from 64 and 128 kbps, 64 coming first.
C27_Witness ==
    /\ Returned("select_audio_stream")
    /\ Len(call.args.metadata.formats) = 2
    /\ call.args.metadata.formats[1].vcodec = "none"
    /\ call.args.metadata.formats[1].abr = 64
    /\ call.args.metadata.formats[2].vcodec = "none"
    /\ call.args.metadata.formats[2].abr = 128
    /\ call.result.format_id = 2
    /\ call.result.abr = 128

\* The order of the stages of _process_job: the stage that can be recorded
\* next after each stage.
StageSteps ==
    {<<"VALIDATING_URL", "FETCHING_METADATA">>,
     <<"FETCHING_METADATA", "TRYING_CREATOR_CAPTIONS">>,
     <<"TRYING_CREATOR_CAPTIONS", "PARSING_CAPTIONS">>,
     <<"TRYING_CREATOR_CAPTIONS", "SELECTING_AUDIO_STREAM">>,
     <<"PARSING_CAPTIONS", "WRITING_TXT">>,
     <<"PARSING_CAPTIONS", "SELECTING_AUDIO_STREAM">>,
     <<"SELECTING_AUDIO_STREAM", "DOWNLOADING_AUDIO">>,
     <<"DOWNLOADING_AUDIO", "NORMALIZING_AUDIO">>,
     <<"NORMALIZING_AUDIO", "CHUNKING_AUDIO">>,
     <<"NORMALIZING_AUDIO", "TRANSCRIBING_DEEPGRAM">>,
     <<"CHUNKING_AUDIO", "TRANSCRIBING_DEEPGRAM">>,
     <<"TRANSCRIBING_DEEPGRAM", "MERGING_TRANSCRIPT">>,
     <<"MERGING_TRANSCRIPT", "WRITING_TXT">>,
     <<"WRITING_TXT", "CLEANUP">>}

ChunkIdxs(id) == {c[2] : c \in {k \in DOMAIN chunks : k[1] = id}}

C30_RetriedOnce ==
    [][/\ ( /\ adaptive.pc = "transcribe_audio" /\ adaptive' # adaptive
            /\ adaptive'.response = "error" )
          => /\ adaptive'.pc = "retry"
             /\ adaptive'.stack = adaptive.stack
             /\ adaptive'.files = adaptive.files
       /\ ( /\ adaptive.pc = "retry" /\ adaptive' # adaptive
            /\ adaptive'.response # "ok" )
          => /\ adaptive'.pc = "raised"
             /\ adaptive'.error = ServiceError(adaptive'.response)
             /\ adaptive'.files = adaptive.files
       /\ ( /\ adaptive.pc = "transcribe_audio" /\ adaptive' # adaptive
            /\ adaptive'.response = "oserror" )
          => /\ adaptive'.pc = "raised"
             /\ adaptive'.error = ServiceError("oserror")
             /\ adaptive'.files = adaptive.files
       /\ adaptive.pc = "retry" => adaptive'.pc # "retry" \/ adaptive' = adaptive
    ]_vars

\* C30 happens: the second request for a 20-minute segment timed out and the
\* timeout was raised with not one half cut.
C30_Witness ==
    /\ adaptive.pc = "raised"
    /\ adaptive.response = "timeout"
    /\ adaptive.error = ServiceError("timeout")
    /\ adaptive.files = (ChunkFile :> <<Sec(0), Sec(1200)>>)

\* C31: for a segment whose every request is answered with a rate-limit
\* response the request is sent at most 5 times in all, and the controller
\* then fails with the retryable network error.
C31_RateLimitedFiveTimes ==
    ( /\ call.pc # "idle" /\ call.fn = "_transcribe_with_adaptive_retry"
      /\ \A n \in 1..Len(call.outcomes) : call.outcomes[n] = "429" )
    => /\ Len(call.outcomes) <= MAX_RATE_LIMIT_RETRIES + 1
       /\ Len(call.outcomes) = MAX_RATE_LIMIT_RETRIES + 1
            => call.pc = "raised" /\ call.error = RateLimited

\* C32: when the captions that were found parse to nothing or the parser
\* throws, the job goes on in the same run with the fallback: its row is left
\* as it is (RUNNING, neither failed nor requeued), the next call is the first
\* of the fallback, and fetch_metadata has been called once in the run and is
\* not called again.
C32_EmptyCaptionsFallBack ==
    [][\A w \in WorkerIds :
        LET id == workers[w].job
        IN /\ ( /\ workers[w].pc = "parse_vtt_to_text"
                /\ workers'[w].text = ""
                /\ id \in DOMAIN jobs )
              => /\ jobs'[id] = jobs[id]
                 /\ jobs[id].status = RUNNING
                 /\ workers'[w].pc = "keychain_get_api_key"
                 /\ workers'[w].fetched = 1
           /\ workers[w].text = "" => workers'[w].fetched <= 1
    ]_vars

\* C32 happens: a job whose captions parsed to nothing is COMPLETED by the
\* fallback, its worker about to return.
C32_Witness ==
    \E w \in WorkerIds :
        /\ workers[w].text = ""
        /\ workers[w].fetched = 1
        /\ workers[w].job \in DOMAIN jobs
        /\ jobs[workers[w].job].stage = "CLEANUP"
        /\ jobs[workers[w].job].used_creator_captions = 0


\* C33: the progress stored with a stage is a function of the stage: an update
\* of a RUNNING job that records the stage the job already has (recorded by the
\* update before it) records the progress percentage the job already has.
C33_FixedStageProgress ==
    [][\A id \in DOMAIN jobs :
        ( /\ id \in DOMAIN jobs'
          /\ jobs[id].status = RUNNING
          /\ jobs'[id].status = RUNNING
          /\ jobs[id].stage # Null
          /\ jobs'[id].stage = jobs[id].stage )
        => jobs'[id].progress_pct = jobs[id].progress_pct
    ]_vars

\* C34: with no stop signal and every collaborator call returning, the worker
\* thread exits with the queue drained: from some point on the thread is gone
\* and every job is COMPLETED, FAILED or SKIPPED; no job is taken for a third
\* attempt (a job is requeued at most MAX_AUTO_RETRIES times); and when the
\* thread is gone no job is RUNNING.
Drained ==
    /\ \A w \in WorkerIds : workers[w].pc = "none"
    /\ ~running
    /\ \A id \in DOMAIN jobs : jobs[id].status \in {COMPLETED, FAILED, SKIPPED}

C35_SecondPassCreatesChunks ==
    [][\A w \in WorkerIds :
        ( /\ workers[w].pc = "split_audio_into_chunks"
          /\ workers[w].job \in DOMAIN jobs
          /\ jobs[workers[w].job].retry_count > 0 )
        => workers'[w].error # Exception("sqlite3.IntegrityError")
    ]_vars

\* C36: every chunk row belongs to a job that is in the store, and deleting
\* all QUEUED jobs (clear_queue, in whatever state it is called) leaves no
\* QUEUED job and no chunk row of a deleted job, and leaves the jobs in other
\* statuses as they are.
C36_ChunksBelongToJobs ==
    LET after == clear_queue_outcome(jobs, chunks)
    IN /\ \A c \in DOMAIN chunks : c[1] \in DOMAIN jobs
       /\ get_queued_jobs(after) = {}
       /\ \A c \in DOMAIN chunks : c[1] \in DOMAIN after
       /\ \A id \in DOMAIN jobs : jobs[id].status # QUEUED
            => id \in DOMAIN after /\ after[id] = jobs[id]

\* C37: retry_job changes nothing for a job that is QUEUED, RUNNING, COMPLETED
\* or SKIPPED (neither its row nor its chunk rows), and the status of a
\* COMPLETED or SKIPPED job never changes while the job is in the store.
C37_TerminalAbsorbing ==
    [][/\ \A id \in DOMAIN jobs :
            jobs[id].status # FAILED
              => retry_job_outcome(jobs, chunks, id) = [jobs |-> jobs, chunks |-> chunks]
       /\ \A id \in DOMAIN jobs \cap DOMAIN jobs' :
            jobs[id].status \in {COMPLETED, SKIPPED} => jobs'[id].status = jobs[id].status
    ]_vars

\* C38: the segments of one recursive split are kept apart: the activations of
\* the controller that are open at the same time (a sub-segment, the segment
\* it was cut from, and so on up to the chunk) read different audio files and
\* write different response files.
C38_DistinctArtifacts ==
    \A i, j \in 1..Len(adaptive.stack) :
        i < j => /\ adaptive.stack[i].audio # adaptive.stack[j].audio
                 /\ adaptive.stack[i].out # adaptive.stack[j].out

\* C39: create_chunk_manifest terminates for every duration above 0, chunk
\* length from 1 and overlap from 0, the chunk length not above the overlap
\* included: each entry starts after the one before it, so the manifest never
\* has more entries than the duration has seconds.
C39_ManifestTerminates ==
    /\ \A n \in 1..(Len(call.chunks) - 1) :
         call.chunks[n + 1].start_sec > call.chunks[n].start_sec
    /\ Len(call.chunks) <= call.args.duration_sec
====
